---- MODULE Spec2Model ----
(***************************************************************************)
(* WasmBridge (the host side of the memory bridge protocol): the singleton *)
(* WasmBridgeClass, the module-level wasmModule / wasmMemory bindings, the *)
(* kernel's linear memory with its staging and output regions, and the     *)
(* browser environment the bridge probes at start-up.                      *)
(*                                                                         *)
(* Object identities are numbers: 0 is null, a view is the number of the   *)
(* backing store (wasmMemory.buffer) it was created on, a raycaster is the *)
(* number of the BVHRaycaster object that was constructed.                 *)
(***************************************************************************)
EXTENDS Integers, Sequences, FiniteSets, TLC

\* ------------------------------------------------------------------ bounds
MaxInitCalls == 2
MaxGrow == 2
NumIds == 2
MaxRaycasters == 2
NumMatrices == 2

Ids == 1..NumIds
OneId == {1}
Matrices == 1..NumMatrices
OneMatrix == {1}
Sizes == {2}

\* The classes the kernel module may export (wasmModule.X is tested before use).
Features == {"MatrixComputer", "TextureGenerator", "BVHRaycaster", "RippleSimulator"}
ModuleVariants ==
    {Features,
     Features \ {"MatrixComputer", "TextureGenerator"},
     Features \ {"BVHRaycaster", "RippleSimulator"}}

\* Browser environments: SharedArrayBuffer defined, crossOriginIsolated, and
\* whether the kernel's memory is itself shared (only possible when both hold).
Environments ==
    {e \in [sab : BOOLEAN, coi : BOOLEAN, memShared : BOOLEAN] :
        e.memShared => (e.sab /\ e.coi)}

VARIABLES
    ready, readyPromise, initError,
    _matrix, _raycasters, _rippleSimulators, _textureGen,
    _inverseView, _normalView, _mvpView,
    _sharedSupported, _inputView, _viewMatrixView, _projectionView,
    wasmModule, wasmMemory,
    env, kernel, pc, promiseValue,
    doInitRuns, initReturns, nextRaycaster, disposed, lastCall

bridgeVars ==
    <<ready, readyPromise, initError, _matrix, _raycasters, _rippleSimulators,
      _textureGen, _inverseView, _normalView, _mvpView, _sharedSupported,
      _inputView, _viewMatrixView, _projectionView, wasmModule, wasmMemory,
      env, kernel, pc, promiseValue, doInitRuns, initReturns, nextRaycaster,
      disposed, lastCall>>

\* Caju (the squeezable model): the loaded scene, the inverse model matrix
\* and the shader uniforms that receive it.
VARIABLES
    ripplesEnabled, mesh, _inverseMatrix, glassUniforms, sssUniforms,
    lastUpdate

cajuVars ==
    <<ripplesEnabled, mesh, _inverseMatrix, glassUniforms, sssUniforms,
      lastUpdate>>

\* HybridRaycaster: what its last cast() did and answered.
VARIABLES lastCast

hybridVars == <<lastCast>>

\* App (main.js): its view of the kernel and of the Caju model, where its
\* initWasm() stands, the createRaycaster calls a running traverse still has
\* to make, which of its two callers started the last traverse, and the
\* calls it has made.
VARIABLES
    wasmReady, cajuModel, initWasmPc, indexedMeshes, remaining, traverseCaller,
    createInvoked, appDisposed

appVars ==
    <<wasmReady, cajuModel, initWasmPc, indexedMeshes, remaining,
      traverseCaller, createInvoked, appDisposed>>

\* Benchmark.raycasting(): where a running call stands, the rays it has yet
\* to cast, and whether a call has returned.
VARIABLES benchPc, raysLeft, benchReturned

benchVars == <<benchPc, raysLeft, benchReturned>>

\* Benchmark.noiseTextureGeneration(): the last two evaluations of its
\* generateBlueNoiseJS.
VARIABLES jsNoise

noiseVars == <<jsNoise>>

\* PerformanceManager: the power mode and the throttling counters; what the
\* last shouldUpdate() / getEffectiveDelta() pair answered; and, kept beside
\* them for the properties, each system's number of low-power calls (modulo
\* its rate) and the frame time gone by since its previous update.
VARIABLES powerMode, _updateCounters, lastShould, lowCalls, elapsed

perfVars == <<powerMode, _updateCounters, lastShould, lowCalls, elapsed>>

\* Caju's squeak sounds and press state: the audio context and where
\* _loadSounds() stands, the source the component holds as current, the
\* queue of sound types, the ripple being inflated and the ripples; of the
\* audio context's buffer sources, the ones playing, the ones whose 'ended'
\* event is yet to be dispatched, and the next one to create; and how the
\* last source was started.
VARIABLES
    audioContext, soundsPc, currentSource, soundQueue, inflateRipple, ripples,
    playing, awaitingEnded, nextSource, lastStart

soundVars ==
    <<audioContext, soundsPc, currentSource, soundQueue, inflateRipple,
      ripples, playing, awaitingEnded, nextSource, lastStart>>

\* App's pointer handling: whether a drag is in progress, the orbit
\* controls' enabled flag, and the last pointer event handled.
VARIABLES isDragging, controlsEnabled, lastEvent

dragVars == <<isDragging, controlsEnabled, lastEvent>>

\* Caju's ripple display: the glass uniforms' shader time (0 while there
\* are no uniforms), what _updateRippleUniforms last wrote to slot 0 of the
\* ripple uniforms, and the last of Caju's interaction and update methods
\* called.
VARIABLES uTime, rippleSlot, lastCajuCall

rippleVars == <<uTime, rippleSlot, lastCajuCall>>

\* PerformanceManager's frame monitoring: the frame count (kept modulo the
\* period of the power-mode check), the monitoring fields, whether the
\* clock has passed monitoringStartTime by more than the monitoring
\* duration, the number of times the settings-change callback has been
\* invoked, and the deltaTime of the last update(). isSoftwareRendering is
\* fixed by the constructor and first read by update() once monitoring has
\* started: its value is drawn when startMonitoring() is called.
VARIABLES
    frameCount, monitoringStarted, hasAdjusted, fpsHistory,
    isSoftwareRendering, clockPast, settingsChanges, lastDelta

monitorVars ==
    <<frameCount, monitoringStarted, hasAdjusted, fpsHistory,
      isSoftwareRendering, clockPast, settingsChanges, lastDelta>>

\* Everything outside the bridge, and everything outside each component.
componentVars ==
    <<cajuVars, hybridVars, appVars, benchVars, noiseVars, perfVars,
      soundVars, dragVars, rippleVars, monitorVars>>
otherThanCaju ==
    <<hybridVars, appVars, benchVars, noiseVars, perfVars, soundVars,
      dragVars, rippleVars, monitorVars>>
otherThanHybrid ==
    <<cajuVars, appVars, benchVars, noiseVars, perfVars, soundVars, dragVars,
      rippleVars, monitorVars>>
otherThanApp ==
    <<hybridVars, benchVars, noiseVars, perfVars, soundVars, dragVars,
      rippleVars, monitorVars>>
otherThanBench ==
    <<cajuVars, hybridVars, appVars, noiseVars, perfVars, soundVars, dragVars,
      rippleVars, monitorVars>>
otherThanNoise ==
    <<cajuVars, hybridVars, appVars, benchVars, perfVars, soundVars, dragVars,
      rippleVars, monitorVars>>
otherThanPerf ==
    <<cajuVars, hybridVars, appVars, benchVars, noiseVars, soundVars,
      dragVars, rippleVars, monitorVars>>
otherThanSound ==
    <<cajuVars, hybridVars, appVars, benchVars, noiseVars, perfVars, dragVars,
      rippleVars, monitorVars>>
otherThanRipple ==
    <<hybridVars, appVars, benchVars, noiseVars, perfVars, dragVars,
      monitorVars>>
otherThanMonitor ==
    <<cajuVars, hybridVars, appVars, benchVars, noiseVars, soundVars,
      dragVars, rippleVars>>
otherThanDrag ==
    <<cajuVars, hybridVars, appVars, benchVars, noiseVars, perfVars,
      rippleVars, monitorVars>>

vars == <<bridgeVars, componentVars>>

\* ------------------------------------------------------------ values
NoModule == [loaded |-> FALSE, exports |-> {}]
NoData == <<"none">>
Detached == <<"detached">>

\* The kernel's input staging regions: the matrix last written to each, 0
\* before any write. An output region is overwritten by every operation
\* before its view is returned, so its content is carried by the call record.
KernelInit == [input |-> 0, view |-> 0, projection |-> 0]

\* The identity matrix (16 finite elements; also what new THREE.Matrix4() is).
Identity == <<"identity">>

\* The matrices with no inverse (a zero row, say).
SingularMatrices == {1}

\* Results of the kernel's matrix routines, as terms over their arguments.
\* The inverse of a singular matrix is defined as the identity.
Inverse(m) == IF m \in SingularMatrices THEN Identity ELSE <<"inverse", m>>
Normal(m) == <<"normal", m>>
Mvp(m, v, p) == <<"mvp", m, v, p>>

\* What one bridge call did and handed back.
NoCall ==
    [op |-> "none", id |-> 0, result |-> "none", kernelCalled |-> FALSE,
     wrote |-> FALSE, current |-> FALSE, data |-> NoData,
     args |-> <<>>, read |-> <<>>, handle |-> 0, tick |-> FALSE]

\* The record of the call being made: every call flips the tick.
Call == [NoCall EXCEPT !.tick = ~lastCall.tick]

\* this.mesh.matrixWorld inverted by Three.js (Matrix4.copy().invert()).
ThreeInvert(m) == <<"three.invert", m>>

NoUniforms == [kind |-> "null", uInverseModelMatrix |-> Identity]

\* What one _updateInverseMatrix() call did: the assignments to
\* _inverseMatrix it executed, and the matrixWorld it read.
NoUpdate ==
    [ran |-> {}, bridgeCalled |-> FALSE, matrixWorld |-> 0, tick |-> FALSE]

\* Caju's constructor: no mesh until the GLTF loader calls back.
CajuInit ==
    /\ ripplesEnabled \in BOOLEAN
    /\ mesh = 0
    /\ _inverseMatrix = Identity
    /\ glassUniforms = NoUniforms
    /\ sssUniforms = <<>>
    /\ lastUpdate = NoUpdate

\* One cast(): the path taken, the object answered with (0 is null) and the
\* object Three.js's intersectObjects puts first for the same ray (0: none).
NoCast ==
    [path |-> "none", wasmId |-> 0, result |-> 0, three |-> 0,
     tick |-> FALSE]

\* One evaluation of generateBlueNoiseJS, and the one before it.
NoEvaluation ==
    [size |-> 0, seed |-> 0, data |-> <<>>, previous |-> <<>>, tick |-> FALSE]

\* The systems that ask for throttling: the four the manager names, and one
\* it does not.
Systems == {"string", "archText", "billboards", "flicker", "other"}

NoAnswer ==
    [system |-> "none", mode |-> "none", result |-> FALSE, delta |-> 0,
     effective |-> 0, tick |-> FALSE]

\* PerformanceManager's constructor.
PerfInit ==
    /\ powerMode = "normal"
    /\ _updateCounters =
           [string |-> 0, archText |-> 0, billboards |-> 0, flicker |-> 0]
    /\ lastShould = NoAnswer
    /\ lowCalls = [s \in Systems |-> 0]
    /\ elapsed = [s \in Systems |-> 0]

\* How a buffer source was started: by a playSound call of a handler, or by
\* the playSound call in the 'ended' callback of source `ended`; the sources
\* playing at that moment.
NoStart ==
    [source |-> 0, type |-> "none", from |-> "none", ended |-> 0,
     beside |-> {}]

\* Caju's constructor, as far as audio and presses go.
SoundInit ==
    /\ audioContext = FALSE
    /\ soundsPc = "idle"
    /\ currentSource = 0
    /\ soundQueue = <<>>
    /\ inflateRipple = FALSE
    /\ ripples = <<>>
    /\ playing = {}
    /\ awaitingEnded = {}
    /\ nextSource = 1
    /\ lastStart = NoStart

\* A pointer event handled: which handler ran, whether it got past its
\* early returns, what handlePress returned, and whether updatePullPosition
\* was called.
NoEvent ==
    [kind |-> "none", handled |-> FALSE, hit |-> FALSE, pulled |-> FALSE,
     tick |-> FALSE]

\* App's constructor and Camera's (OrbitControls start enabled).
DragInit ==
    /\ isDragging = FALSE
    /\ controlsEnabled = TRUE
    /\ lastEvent = NoEvent

\* Slot 0 of the ripple uniforms: type 1 shows the ripple being inflated,
\* type 0 a released ripple created at `time`, type -1 nothing.
NoSlot == [type |-> -1, time |-> 0]

NoCajuCall == [op |-> "none", tick |-> FALSE]

\* Before the shaders compile: no shader time, nothing written.
RippleInit ==
    /\ uTime = 0
    /\ rippleSlot = NoSlot
    /\ lastCajuCall = NoCajuCall

\* PerformanceManager's constructor, the monitoring fields.
MonitorInit ==
    /\ frameCount = 0
    /\ monitoringStarted = FALSE
    /\ hasAdjusted = FALSE
    /\ fpsHistory = <<>>
    /\ isSoftwareRendering = "unread"
    /\ clockPast = FALSE
    /\ settingsChanges = 0
    /\ lastDelta = 0

\* App's constructor, before its initWasm() call.
AppInit ==
    /\ wasmReady = FALSE
    /\ cajuModel = 0
    /\ initWasmPc = "idle"
    /\ indexedMeshes = 0
    /\ remaining = 0
    /\ traverseCaller = "none"
    /\ createInvoked = 0
    /\ appDisposed = FALSE

Init ==
    /\ ready = FALSE
    /\ readyPromise = 0
    /\ initError = "null"
    /\ _matrix = 0
    /\ _raycasters = [i \in Ids |-> 0]
    /\ _rippleSimulators = [i \in OneId |-> 0]
    /\ _textureGen = 0
    /\ _inverseView = 0
    /\ _normalView = 0
    /\ _mvpView = 0
    /\ _sharedSupported = FALSE
    /\ _inputView = 0
    /\ _viewMatrixView = 0
    /\ _projectionView = 0
    /\ wasmModule = NoModule
    /\ wasmMemory = 0
    /\ env \in Environments
    /\ kernel = KernelInit
    /\ pc = "idle"
    /\ promiseValue = "none"
    /\ doInitRuns = 0
    /\ initReturns = <<>>
    /\ nextRaycaster = 1
    /\ disposed = FALSE
    /\ lastCall = NoCall
    /\ CajuInit
    /\ lastCast = NoCast
    /\ AppInit
    /\ benchPc = "idle"
    /\ raysLeft = 0
    /\ benchReturned = FALSE
    /\ jsNoise = NoEvaluation
    /\ PerfInit
    /\ SoundInit
    /\ DragInit
    /\ RippleInit
    /\ MonitorInit

\* ------------------------------------------------------- initialization
\* Promise objects are numbered: n > 0 is the promise of the n-th
\* _doInitialize run, -k the promise the k-th initialize() call returns.
\* An async function hands each caller a promise of its own, which settles
\* as the promise its body returned does.
AsyncReturn(callNo, inner, state) ==
    [promise |-> 0 - callNo, follows |-> inner, state |-> state]

\* A test of the ready flag in place of the stored promise.
AlreadyReady == ready

\* A test that takes only a settled promise for an initialization.
AlreadySettled == readyPromise # 0 /\ promiseValue # "pending"

\* if (this.readyPromise) return this.readyPromise;
AlreadyInitializing == readyPromise # 0

initialize(max) ==
    /\ Len(initReturns) < max
    /\ IF AlreadyInitializing
       THEN /\ initReturns' = Append(initReturns,
                                     AsyncReturn(Len(initReturns) + 1, readyPromise,
                                                 promiseValue))
            /\ UNCHANGED <<readyPromise, pc, promiseValue, doInitRuns>>
       ELSE /\ doInitRuns' = doInitRuns + 1
            /\ readyPromise' = doInitRuns + 1
            /\ promiseValue' = "pending"
            /\ pc' = "import"
            /\ initReturns' = Append(initReturns,
                                     AsyncReturn(Len(initReturns) + 1, doInitRuns + 1,
                                                 "pending"))
    /\ lastCall' = [Call EXCEPT !.op = "initialize", !.result = "promise"]
    /\ UNCHANGED <<ready, initError, _matrix, _raycasters, _rippleSimulators,
                   _textureGen, _inverseView, _normalView, _mvpView,
                   _sharedSupported, _inputView, _viewMatrixView, _projectionView,
                   wasmModule, wasmMemory, env, kernel, nextRaycaster, disposed>>

\* The catch block of _doInitialize.
InitFails(error) ==
    /\ initError' = error
    /\ ready' = FALSE
    /\ promiseValue' = "false"
    /\ pc' = "done"

\* _setupZeroCopyViews: the three output views over the current backing store.
_setupZeroCopyViews(mat, mem, cur) ==
    IF mat = 0 \/ mem = 0
    THEN cur
    ELSE [inverse |-> mem, normal |-> mem, mvp |-> mem]

OutViews == [inverse |-> _inverseView, normal |-> _normalView, mvp |-> _mvpView]

\* A bridge that never re-creates its output views.
RefreshViewsNever == OutViews

\* _refreshViewsIfNeeded: re-create the output views when the inverse view's
\* buffer is no longer wasmMemory.buffer.
_refreshViewsIfNeeded ==
    IF _inverseView # 0 /\ _inverseView # wasmMemory
    THEN _setupZeroCopyViews(_matrix, wasmMemory, OutViews)
    ELSE OutViews

\* A probe that tests only for SharedArrayBuffer, not for isolation.
CheckSharedWithoutIsolation(mat, mem, ptrThrows) ==
    IF mat = 0 \/ mem = 0 \/ ~env.sab \/ ptrThrows
    THEN [supported |-> FALSE, input |-> _inputView,
          view |-> _viewMatrixView, projection |-> _projectionView]
    ELSE [supported |-> TRUE, input |-> mem, view |-> mem, projection |-> mem]

\* _checkSharedArrayBufferSupport: [supported, input, view, projection].
_checkSharedArrayBufferSupport(mat, mem, ptrThrows) ==
    IF mat = 0 \/ mem = 0
    THEN [supported |-> _sharedSupported, input |-> _inputView,
          view |-> _viewMatrixView, projection |-> _projectionView]
    ELSE IF ~env.sab \/ ~env.coi
    THEN [supported |-> FALSE, input |-> _inputView,
          view |-> _viewMatrixView, projection |-> _projectionView]
    ELSE IF ptrThrows
    THEN [supported |-> FALSE, input |-> _inputView,
          view |-> _viewMatrixView, projection |-> _projectionView]
    ELSE [supported |-> TRUE, input |-> mem, view |-> mem, projection |-> mem]

\* await import(...) settles: the module namespace, or a rejection.
ImportSettles ==
    /\ pc = "import"
    /\ \/ /\ InitFails("ImportError")
          /\ UNCHANGED wasmModule
       \/ \E exports \in ModuleVariants :
             /\ wasmModule' = [loaded |-> TRUE, exports |-> exports]
             /\ pc' = "instantiate"
             /\ UNCHANGED <<ready, initError, promiseValue>>
    /\ UNCHANGED <<readyPromise, _matrix, _raycasters, _rippleSimulators,
                   _textureGen, _inverseView, _normalView, _mvpView,
                   _sharedSupported, _inputView, _viewMatrixView, _projectionView,
                   wasmMemory, env, kernel, doInitRuns, initReturns,
                   nextRaycaster, disposed, lastCall>>

\* await wasmModule.default() settles, and the rest of _doInitialize runs.
InstantiateSettles ==
    /\ pc = "instantiate"
    /\ \/ /\ InitFails("InstantiateError")
          /\ UNCHANGED <<wasmMemory, _matrix, _textureGen, _inverseView,
                         _normalView, _mvpView, _sharedSupported, _inputView,
                         _viewMatrixView, _projectionView>>
       \/ /\ "MatrixComputer" \in wasmModule.exports
          /\ wasmMemory' = 1
          /\ _matrix' = doInitRuns
          /\ InitFails("SetupError")
          /\ UNCHANGED <<_textureGen, _inverseView, _normalView, _mvpView,
                         _sharedSupported, _inputView, _viewMatrixView,
                         _projectionView>>
       \/ \E ptrThrows \in BOOLEAN :
             LET mem == 1
                 mat == IF "MatrixComputer" \in wasmModule.exports
                        THEN doInitRuns ELSE _matrix
                 hasMatrix == "MatrixComputer" \in wasmModule.exports
                 out == IF hasMatrix
                        THEN _setupZeroCopyViews(mat, mem, OutViews)
                        ELSE OutViews
                 shared == IF hasMatrix
                           THEN _checkSharedArrayBufferSupport(mat, mem, ptrThrows)
                           ELSE _checkSharedArrayBufferSupport(0, mem, ptrThrows)
             IN  /\ wasmMemory' = mem
                 /\ _matrix' = mat
                 /\ _inverseView' = out.inverse
                 /\ _normalView' = out.normal
                 /\ _mvpView' = out.mvp
                 /\ _sharedSupported' = shared.supported
                 /\ _inputView' = shared.input
                 /\ _viewMatrixView' = shared.view
                 /\ _projectionView' = shared.projection
                 /\ _textureGen' = IF "TextureGenerator" \in wasmModule.exports
                                   THEN doInitRuns ELSE _textureGen
                 /\ ready' = TRUE
                 /\ promiseValue' = "true"
                 /\ pc' = "done"
                 /\ UNCHANGED initError
    /\ UNCHANGED <<readyPromise, _raycasters, _rippleSimulators, wasmModule,
                   env, kernel, doInitRuns, initReturns, nextRaycaster,
                   disposed, lastCall>>

dispose ==
    /\ _raycasters' = [i \in Ids |-> 0]
    /\ _rippleSimulators' = [i \in OneId |-> 0]
    /\ _matrix' = 0
    /\ _textureGen' = 0
    /\ ready' = FALSE
    /\ disposed' = TRUE
    /\ lastCall' = [Call EXCEPT !.op = "dispose", !.result = "void"]
    /\ UNCHANGED <<readyPromise, initError, _inverseView, _normalView, _mvpView,
                   _sharedSupported, _inputView, _viewMatrixView, _projectionView,
                   wasmModule, wasmMemory, env, kernel, pc, promiseValue,
                   doInitRuns, initReturns, nextRaycaster>>


\* ------------------------------------------------------- kernel memory
\* A typed array reads and writes the kernel's memory while its buffer is the
\* current backing store; the buffer of a non-shared memory is detached by a
\* growth, the old buffer of a shared memory keeps aliasing the same memory.
ViewLive(view) == view # 0 /\ (view = wasmMemory \/ env.memShared)

\* What the caller sees through a returned output view.
ReadView(view, content) == IF ViewLive(view) THEN content ELSE Detached

\* The kernel's linear memory grows: wasmMemory.buffer is a new backing store.
MemoryGrow ==
    /\ wasmMemory # 0
    /\ wasmMemory <= MaxGrow
    /\ wasmMemory' = wasmMemory + 1
    /\ UNCHANGED <<ready, readyPromise, initError, _matrix, _raycasters,
                   _rippleSimulators, _textureGen, _inverseView, _normalView,
                   _mvpView, _sharedSupported, _inputView, _viewMatrixView,
                   _projectionView, wasmModule, env, kernel, pc, promiseValue,
                   doInitRuns, initReturns, nextRaycaster, disposed, lastCall>>

\* ----------------------------------------------------- matrix operations
SetOutViews(out) ==
    /\ _inverseView' = out.inverse
    /\ _normalView' = out.normal
    /\ _mvpView' = out.mvp

\* The state a matrix operation never touches.
MatrixFrame ==
    UNCHANGED <<ready, readyPromise, initError, _matrix, _raycasters,
                _rippleSimulators, _textureGen, _sharedSupported, _inputView,
                _viewMatrixView, _projectionView, wasmModule, wasmMemory, env,
                pc, promiseValue, doInitRuns, initReturns, nextRaycaster,
                disposed>>

ReturnsNull(op, args) ==
    /\ lastCall' = [Call EXCEPT !.op = op, !.result = "null", !.args = args]
    /\ UNCHANGED <<_inverseView, _normalView, _mvpView, kernel>>

\* The call hands back `view`, whose region the kernel filled with `content`.
ReturnsView(op, args, read, wrote, view, content) ==
    lastCall' = [Call EXCEPT !.op = op, !.result = "view", !.args = args,
                               !.read = read, !.wrote = wrote,
                               !.kernelCalled = TRUE,
                               !.current = (view = wasmMemory),
                               !.data = ReadView(view, content)]

\* Float32Array.prototype.set on a detached array throws a TypeError.
Throws(op, args, wrote) ==
    lastCall' = [Call EXCEPT !.op = op, !.result = "throw", !.args = args,
                               !.wrote = wrote]

\* A guard that tests only the MatrixComputer.
MatrixGuardWithoutReady == _matrix # 0

\* if (!this.ready || !this._matrix) return null;
MatrixGuard == ready /\ _matrix # 0

\* if (!this.ready || !this._matrix || !this._sharedSupported) return null;
SharedGuard == ready /\ _matrix # 0 /\ _sharedSupported

invertMatrixZeroCopy(Ms) ==
    \E elements \in Ms :
        /\ IF ~MatrixGuard
           THEN ReturnsNull("invertMatrixZeroCopy", <<elements>>)
           ELSE LET out == _refreshViewsIfNeeded
                IN  /\ SetOutViews(out)
                    /\ kernel' = kernel
                    /\ ReturnsView("invertMatrixZeroCopy", <<elements>>,
                                   <<elements>>, FALSE, out.inverse,
                                   Inverse(elements))
        /\ MatrixFrame

normalMatrixZeroCopy(Ms) ==
    \E elements \in Ms :
        /\ IF ~MatrixGuard
           THEN ReturnsNull("normalMatrixZeroCopy", <<elements>>)
           ELSE LET out == _refreshViewsIfNeeded
                IN  /\ SetOutViews(out)
                    /\ kernel' = kernel
                    /\ ReturnsView("normalMatrixZeroCopy", <<elements>>,
                                   <<elements>>, FALSE, out.normal,
                                   Normal(elements))
        /\ MatrixFrame

\* The view and the projection matrix are drawn as one camera's pair.
mvpMatrixZeroCopy(Ms) ==
    \E model \in Ms, camera \in Ms :
        LET view == camera
            projection == camera
        IN  /\ IF ~MatrixGuard
               THEN ReturnsNull("mvpMatrixZeroCopy", <<model, view, projection>>)
               ELSE LET out == _refreshViewsIfNeeded
                    IN  /\ SetOutViews(out)
                        /\ kernel' = kernel
                        /\ ReturnsView("mvpMatrixZeroCopy",
                                       <<model, view, projection>>,
                                       <<model, view, projection>>, FALSE,
                                       out.mvp, Mvp(model, view, projection))
            /\ MatrixFrame

invertMatrixShared(Ms) ==
    \E elements \in Ms :
        /\ IF ~SharedGuard
           THEN ReturnsNull("invertMatrixShared", <<elements>>)
           ELSE LET out == _refreshViewsIfNeeded
                    k1 == [kernel EXCEPT !.input = elements]
                IN  /\ SetOutViews(out)
                    /\ IF ViewLive(_inputView)
                       THEN /\ kernel' = k1
                            /\ ReturnsView("invertMatrixShared", <<elements>>,
                                           <<k1.input>>, TRUE, out.inverse,
                                           Inverse(k1.input))
                       ELSE /\ kernel' = kernel
                            /\ Throws("invertMatrixShared", <<elements>>, FALSE)
        /\ MatrixFrame

normalMatrixShared(Ms) ==
    \E elements \in Ms :
        /\ IF ~SharedGuard
           THEN ReturnsNull("normalMatrixShared", <<elements>>)
           ELSE LET out == _refreshViewsIfNeeded
                    k1 == [kernel EXCEPT !.input = elements]
                IN  /\ SetOutViews(out)
                    /\ IF ViewLive(_inputView)
                       THEN /\ kernel' = k1
                            /\ ReturnsView("normalMatrixShared", <<elements>>,
                                           <<k1.input>>, TRUE, out.normal,
                                           Normal(k1.input))
                       ELSE /\ kernel' = kernel
                            /\ Throws("normalMatrixShared", <<elements>>, FALSE)
        /\ MatrixFrame

mvpMatrixShared(Ms) ==
    \E model \in Ms, camera \in Ms :
        LET view == camera
            projection == camera
            args == <<model, view, projection>>
        IN  /\ IF ~SharedGuard
               THEN ReturnsNull("mvpMatrixShared", args)
               ELSE LET out == _refreshViewsIfNeeded
                        k1 == [kernel EXCEPT !.input = model]
                        k2 == [k1 EXCEPT !.view = view]
                        k3 == [k2 EXCEPT !.projection = projection]
                    IN  /\ SetOutViews(out)
                        /\ IF ~ViewLive(_inputView)
                           THEN /\ kernel' = kernel
                                /\ Throws("mvpMatrixShared", args, FALSE)
                           ELSE IF ~ViewLive(_viewMatrixView)
                           THEN /\ kernel' = k1
                                /\ Throws("mvpMatrixShared", args, TRUE)
                           ELSE IF ~ViewLive(_projectionView)
                           THEN /\ kernel' = k2
                                /\ Throws("mvpMatrixShared", args, TRUE)
                           ELSE /\ kernel' = k3
                                /\ ReturnsView("mvpMatrixShared", args,
                                               <<k3.input, k3.view, k3.projection>>,
                                               TRUE, out.mvp,
                                               Mvp(k3.input, k3.view, k3.projection))
            /\ MatrixFrame

\* The legacy operations copy the result into a Float32Array of the caller's.
ReturnsValue(op, args, value) ==
    lastCall' = [Call EXCEPT !.op = op, !.result = "value", !.args = args,
                               !.read = args, !.kernelCalled = TRUE,
                               !.data = value]

computeInverseMatrix(Ms) ==
    \E elements \in Ms :
        /\ IF ~MatrixGuard
           THEN ReturnsNull("computeInverseMatrix", <<elements>>)
           ELSE /\ ReturnsValue("computeInverseMatrix", <<elements>>,
                                Inverse(elements))
                /\ UNCHANGED <<_inverseView, _normalView, _mvpView, kernel>>
        /\ MatrixFrame

computeNormalMatrix(Ms) ==
    \E elements \in Ms :
        /\ IF ~MatrixGuard
           THEN ReturnsNull("computeNormalMatrix", <<elements>>)
           ELSE /\ ReturnsValue("computeNormalMatrix", <<elements>>,
                                Normal(elements))
                /\ UNCHANGED <<_inverseView, _normalView, _mvpView, kernel>>
        /\ MatrixFrame

\* ------------------------------------------------------------ raycasting
RegistryFrame ==
    UNCHANGED <<ready, readyPromise, initError, _matrix, _textureGen,
                _inverseView, _normalView, _mvpView, _sharedSupported,
                _inputView, _viewMatrixView, _projectionView, wasmModule,
                wasmMemory, env, kernel, pc, promiseValue, doInitRuns,
                initReturns, disposed>>

\* if (!this.ready || !wasmModule?.BVHRaycaster) return null;
RaycasterGuard == ready /\ "BVHRaycaster" \in wasmModule.exports

\* new BVHRaycaster(...) returned: register it under id and return it.
CreateRaycasterSucceeds(id) ==
    /\ nextRaycaster <= MaxRaycasters
    /\ _raycasters' = [_raycasters EXCEPT ![id] = nextRaycaster]
    /\ nextRaycaster' = nextRaycaster + 1
    /\ lastCall' = [Call EXCEPT !.op = "createRaycaster", !.id = id,
                                  !.result = "handle", !.kernelCalled = TRUE,
                                  !.handle = nextRaycaster]

\* A catch block that also drops the entry registered under id.
CreateRaycasterFailsAndDrops(id) ==
    /\ lastCall' = [Call EXCEPT !.op = "createRaycaster", !.id = id,
                                !.result = "null", !.kernelCalled = TRUE,
                                !.data = <<"constructor threw">>]
    /\ _raycasters' = [_raycasters EXCEPT ![id] = 0]
    /\ UNCHANGED nextRaycaster

\* new BVHRaycaster(...) threw: the catch block warns and returns null.
CreateRaycasterFails(id) ==
    /\ lastCall' = [Call EXCEPT !.op = "createRaycaster", !.id = id,
                                  !.result = "null", !.kernelCalled = TRUE,
                                  !.data = <<"constructor threw">>]
    /\ UNCHANGED <<_raycasters, nextRaycaster>>

createRaycaster(I) ==
    \E id \in I :
        /\ IF ~RaycasterGuard
           THEN /\ lastCall' = [Call EXCEPT !.op = "createRaycaster",
                                              !.id = id, !.result = "null"]
                /\ UNCHANGED <<_raycasters, nextRaycaster>>
           ELSE \/ CreateRaycasterSucceeds(id)
                \/ CreateRaycasterFails(id)
        /\ UNCHANGED _rippleSimulators
        /\ RegistryFrame

\* raycaster.intersect(...) gives a result array or nothing, or it throws (a
\* trap or an error raised inside the kernel), which raycast() lets through.
IntersectOutcomes == {"hit", "null", "throw"}

\* A raycast that calls intersect on whatever the registry lookup gave:
\* on undefined that is a TypeError.
RaycastCallUnchecked(id) ==
    IF _raycasters[id] = 0
    THEN lastCall' = [Call EXCEPT !.op = "raycast", !.id = id,
                                  !.result = "throw"]
    ELSE \E outcome \in IntersectOutcomes :
            lastCall' = [Call EXCEPT !.op = "raycast", !.id = id,
                                     !.result = outcome,
                                     !.kernelCalled = TRUE,
                                     !.handle = _raycasters[id]]

\* raycast(id, ...): null without a registered raycaster, else what the
\* kernel's intersect does.
RaycastCall(id) ==
    IF _raycasters[id] = 0
    THEN lastCall' = [Call EXCEPT !.op = "raycast", !.id = id,
                                    !.result = "null"]
    ELSE \E outcome \in IntersectOutcomes :
            lastCall' = [Call EXCEPT !.op = "raycast", !.id = id,
                                       !.result = outcome,
                                       !.kernelCalled = TRUE,
                                       !.handle = _raycasters[id]]

raycast(I) ==
    \E id \in I :
        /\ RaycastCall(id)
        /\ UNCHANGED <<_raycasters, _rippleSimulators, nextRaycaster>>
        /\ RegistryFrame

\* A mesh of n triangles and a ray: for each triangle, <<>> when the ray's
\* line misses it, <<d>> when it meets it at distance d along the ray
\* (negative: behind the origin).
MaxTriangles == 2
Distances == {-1, 0, 1}
Meets == {<<>>} \cup {<<d>> : d \in Distances}
Rays(n) == [1..n -> Meets]

ValidHits(n, ray) == {t \in 1..n : Len(ray[t]) = 1 /\ ray[t][1] >= 0}

NoResult == <<>>

\* What the kernel's intersect answers with: nothing, or the seven numbers
\* (point, normal, distance) of the closest valid hit.
Intersect(n, ray) ==
    IF ValidHits(n, ray) = {}
    THEN NoResult
    ELSE LET t == CHOOSE t \in ValidHits(n, ray) :
                      \A u \in ValidHits(n, ray) : ray[t][1] <= ray[u][1]
             d == ray[t][1]
         IN  <<<<"point.x", t, d>>, <<"point.y", t, d>>, <<"point.z", t, d>>,
               <<"normal.x", t>>, <<"normal.y", t>>, <<"normal.z", t>>,
               <<"distance", d>>>>

\* A record whose distance is taken one element early.
HitRecordShifted(result) ==
    [point |-> [x |-> result[1], y |-> result[2], z |-> result[3]],
     normal |-> [x |-> result[4], y |-> result[5], z |-> result[6]],
     distance |-> result[6]]

\* { point: {x: result[0], ...}, normal: {x: result[3], ...}, distance: result[6] }
HitRecord(result) ==
    [point |-> [x |-> result[1], y |-> result[2], z |-> result[3]],
     normal |-> [x |-> result[4], y |-> result[5], z |-> result[6]],
     distance |-> result[7]]

\* raycast(id, ...) on the raycaster's mesh of n triangles: null without a
\* registered raycaster or without a result, else the result as a record.
RaycastMesh(id, n, ray) ==
    IF _raycasters[id] = 0
    THEN lastCall' = [Call EXCEPT !.op = "raycast", !.id = id,
                                    !.result = "null", !.args = <<n, ray>>]
    ELSE LET result == Intersect(n, ray)
         IN  lastCall' = [Call EXCEPT !.op = "raycast", !.id = id,
                              !.result = IF result = NoResult THEN "null"
                                                              ELSE "hit",
                              !.data = IF result = NoResult THEN NoData
                                                            ELSE HitRecord(result),
                              !.args = <<n, ray>>,
                              !.kernelCalled = TRUE,
                              !.handle = _raycasters[id]]

raycastMesh(I) ==
    \E id \in I, n \in 0..MaxTriangles :
        \E ray \in Rays(n) :
            /\ RaycastMesh(id, n, ray)
            /\ UNCHANGED <<_raycasters, _rippleSimulators, nextRaycaster>>
            /\ RegistryFrame

\* A delete that empties the registry, as dispose() does.
DeleteEveryRaycaster(id) == [i \in Ids |-> 0]

\* this._raycasters.delete(id)
DeleteRaycaster(id) == [_raycasters EXCEPT ![id] = 0]

disposeRaycaster(I) ==
    \E id \in I :
        /\ _raycasters' = DeleteRaycaster(id)
        /\ lastCall' = [Call EXCEPT !.op = "disposeRaycaster", !.id = id,
                                      !.result = "void"]
        /\ UNCHANGED <<_rippleSimulators, nextRaycaster>>
        /\ RegistryFrame

\* ---------------------------------------------------- texture generation
\* if (!this.ready || !this._textureGen) return null;
TextureGuard == ready /\ _textureGen # 0

\* What the generator constructed by the gen-th initialization (with that
\* moment's Date.now() as its seed) computes for op and size.
KernelTexture(op, size, gen) == <<op, size, gen>>

\* return new Uint8Array(this._textureGen.generate_...(size)), behind the guard.
TextureOn(op, S) ==
    \E size \in S :
        /\ IF ~TextureGuard
           THEN lastCall' = [Call EXCEPT !.op = op, !.result = "null",
                                           !.args = <<size>>]
           ELSE lastCall' = [Call EXCEPT !.op = op, !.result = "value",
                                           !.args = <<size>>,
                                           !.kernelCalled = TRUE,
                                           !.handle = _textureGen,
                                           !.data = KernelTexture(op, size, _textureGen)]
        /\ UNCHANGED <<_raycasters, _rippleSimulators, nextRaycaster>>
        /\ RegistryFrame

Texture(op) == TextureOn(op, Sizes)

generateNoiseTexture == Texture("generateNoiseTexture")

generateBlueNoiseTexture == Texture("generateBlueNoiseTexture")

generateColorLUT == Texture("generateColorLUT")

\* ------------------------------------------------------- ripple physics
\* if (!this.ready || !wasmModule?.RippleSimulator) return null;
RippleGuard == ready /\ "RippleSimulator" \in wasmModule.exports

createRippleSimulator ==
    \E id \in OneId :
        /\ IF ~RippleGuard
           THEN /\ lastCall' = [Call EXCEPT !.op = "createRippleSimulator",
                                              !.id = id, !.result = "null"]
                /\ UNCHANGED _rippleSimulators
           ELSE \/ /\ _rippleSimulators' = [_rippleSimulators EXCEPT ![id] = 1]
                   /\ lastCall' = [Call EXCEPT !.op = "createRippleSimulator",
                                                 !.id = id, !.result = "handle",
                                                 !.kernelCalled = TRUE,
                                                 !.handle = 1]
                \/ /\ lastCall' = [Call EXCEPT !.op = "createRippleSimulator",
                                                 !.id = id, !.result = "null",
                                                 !.kernelCalled = TRUE,
                                                 !.data = <<"constructor threw">>]
                   /\ UNCHANGED _rippleSimulators
        /\ UNCHANGED <<_raycasters, nextRaycaster>>
        /\ RegistryFrame

\* ------------------------------------------------------------------ Caju
\* The largest number of body materials whose shader gets compiled.
MaxSss == 2

ShaderUniforms == [kind |-> "shader", uInverseModelMatrix |-> Identity]

\* The GLTFLoader callback: this.mesh = gltf.scene, and each child gets its
\* material; without ripples the eye is hidden and glassUniforms holds uTime
\* only.
GLTFLoaded ==
    /\ mesh = 0
    /\ mesh' = 1
    /\ glassUniforms' = IF ripplesEnabled
                        THEN glassUniforms
                        ELSE [kind |-> "timeOnly", uInverseModelMatrix |-> Identity]
    /\ UNCHANGED <<ripplesEnabled, _inverseMatrix, sssUniforms, lastUpdate>>

\* material.onBeforeCompile of the glass eye: this.glassUniforms = shader.uniforms.
GlassCompiled ==
    /\ mesh # 0
    /\ ripplesEnabled
    /\ glassUniforms' = ShaderUniforms
    /\ UNCHANGED <<ripplesEnabled, mesh, _inverseMatrix, sssUniforms, lastUpdate>>

\* material.onBeforeCompile of a body material: this.sssUniforms.push(shader.uniforms).
SssCompiled ==
    /\ mesh # 0
    /\ ripplesEnabled
    /\ Len(sssUniforms) < MaxSss
    /\ sssUniforms' = Append(sssUniforms, ShaderUniforms)
    /\ UNCHANGED <<ripplesEnabled, mesh, _inverseMatrix, glassUniforms, lastUpdate>>

\* uniforms.uInverseModelMatrix.value.copy(this._inverseMatrix), for the glass
\* uniforms and every entry of sssUniforms that has the uniform.
CopyToUniforms(value) ==
    /\ glassUniforms' = IF glassUniforms.kind = "shader"
                        THEN [glassUniforms EXCEPT !.uInverseModelMatrix = value]
                        ELSE glassUniforms
    /\ sssUniforms' = [i \in DOMAIN sssUniforms |->
                          IF sssUniforms[i].kind = "shader"
                          THEN [sssUniforms[i] EXCEPT !.uInverseModelMatrix = value]
                          ELSE sssUniforms[i]]

\* An update that never records the kernel's result as used.
ComputedNever(inverseArray) == FALSE

\* if (inverseArray) { ...fromArray(inverseArray); computed = true; }
Computed(inverseArray) == inverseArray.result = "value"

_updateInverseMatrix(Ms) ==
    \E matrixWorld \in Ms :
        IF mesh = 0
        THEN UNCHANGED <<bridgeVars, cajuVars>>
        ELSE /\ IF ready
                THEN computeInverseMatrix({matrixWorld})
                ELSE UNCHANGED bridgeVars
             /\ LET inverseArray == IF ready THEN lastCall'
                                             ELSE [result |-> "not called"]
                    viaWasm == inverseArray.result = "value"
                    computed == ready /\ Computed(inverseArray)
                    final == IF ~computed THEN ThreeInvert(matrixWorld)
                                          ELSE inverseArray.data
                IN  /\ _inverseMatrix' = final
                    /\ CopyToUniforms(final)
                    /\ lastUpdate' =
                           [ran |-> (IF viaWasm THEN {"fromArray"} ELSE {})
                                    \cup (IF ~computed THEN {"invert"} ELSE {}),
                            bridgeCalled |-> ready,
                            matrixWorld |-> matrixWorld,
                            tick |-> ~lastUpdate.tick]
             /\ UNCHANGED <<ripplesEnabled, mesh>>

\* ------------------------------------------------------- HybridRaycaster
\* The largest number of objects handed to one cast().
MaxObjects == 2

Cast(wasmId, path, result, three) ==
    lastCast' = [path |-> path, wasmId |-> wasmId, result |-> result,
                 three |-> three, tick |-> ~lastCast.tick]

\* intersectObjects(objects): null when nothing is intersected, else the
\* first intersection's object.
_castThree(wasmId, three) ==
    /\ Cast(wasmId, "three", three, three)
    /\ UNCHANGED lastCall

\* WasmBridge.raycast(this.wasmId, ...) for each object in turn, until one
\* call answers; firstHit is the object that call was made for (0: no call
\* answered, and the loop ran to its end). A call that throws ends cast()
\* with that exception.
_castWasm(wasmId, n, three) ==
    \/ \E firstHit \in 0..n :
        /\ IF n = 0
           THEN firstHit = 0 /\ UNCHANGED lastCall
           ELSE /\ RaycastCall(wasmId)
                /\ lastCall'.result = IF firstHit > 0 THEN "hit" ELSE "null"
        /\ Cast(wasmId, "wasm", firstHit, three)
    \/ /\ n > 0
       /\ RaycastCall(wasmId)
       /\ lastCall'.result = "throw"
       /\ Cast(wasmId, "wasm threw", 0, three)

\* cast(camera, objects, ndc) of the HybridRaycaster made for wasmId, on n
\* objects of which Three.js would report `three` first.
cast(I) ==
    \E wasmId \in I, n \in 0..MaxObjects :
        \E three \in 0..n :
            /\ IF ready
               THEN _castWasm(wasmId, n, three)
               ELSE _castThree(wasmId, three)
            /\ UNCHANGED <<_raycasters, _rippleSimulators, nextRaycaster>>
            /\ RegistryFrame

\* -------------------------------------------------------------------- App
\* The registry ids the application uses.
CajuId == 1
BenchmarkId == 2

\* The largest number of child meshes with positions and an index.
MaxMeshes == 2

\* No synchronous run (a traverse, a benchmark) is under way: handlers and
\* continuations start only then.
Idle == remaining = 0 /\ benchPc = "idle"

\* A traverse that visits no child.
initWasmRaycasterVisitsNone(isReady, model, meshes) ==
    remaining' = 0

\* initWasmRaycaster(): one createRaycaster('caju', ...) per indexed child
\* mesh, when the kernel is ready and the model's mesh is there.
initWasmRaycaster(isReady, model, meshes) ==
    remaining' = IF ~isReady \/ model = 0 THEN 0 ELSE meshes

\* initWasm() up to its await: WasmBridge.initialize() is called.
initWasm ==
    /\ Idle
    /\ initWasmPc = "idle"
    /\ initialize(1)
    /\ initWasmPc' = "awaiting"
    /\ UNCHANGED <<wasmReady, cajuModel, indexedMeshes, remaining,
                   traverseCaller, createInvoked, appDisposed>>

\* initWasm() after its await: the promise settled (with true or false).
initWasmResumes ==
    /\ Idle
    /\ initWasmPc = "awaiting"
    /\ promiseValue # "pending"
    /\ initWasmPc' = "done"
    /\ wasmReady' = ready
    /\ IF ready /\ cajuModel # 0
       THEN /\ initWasmRaycaster(ready, cajuModel, indexedMeshes)
            /\ traverseCaller' = "initWasm"
       ELSE UNCHANGED <<remaining, traverseCaller>>
    /\ UNCHANGED <<cajuModel, indexedMeshes, createInvoked, appDisposed>>
    /\ UNCHANGED bridgeVars

\* The Caju model finished loading: Caju's GLTFLoader callback, which ends
\* in the onLoad callback createObjects() passed.
CajuLoaded ==
    /\ Idle
    /\ GLTFLoaded
    /\ cajuModel' = 1
    /\ \E meshes \in 0..MaxMeshes :
          /\ indexedMeshes' = meshes
          /\ IF wasmReady
             THEN /\ initWasmRaycaster(wasmReady, 1, meshes)
                  /\ traverseCaller' = "createObjects"
             ELSE UNCHANGED <<remaining, traverseCaller>>
    /\ UNCHANGED <<wasmReady, initWasmPc, createInvoked, appDisposed>>
    /\ UNCHANGED bridgeVars

\* The traverse callback on the next indexed child mesh.
TraverseCreates ==
    /\ remaining > 0
    /\ createRaycaster({CajuId})
    /\ remaining' = remaining - 1
    /\ createInvoked' = createInvoked + 1
    /\ UNCHANGED <<wasmReady, cajuModel, initWasmPc, indexedMeshes,
                   traverseCaller, appDisposed>>

\* App.dispose()
App_dispose ==
    /\ Idle
    /\ ~appDisposed
    /\ appDisposed' = TRUE
    /\ IF wasmReady
       THEN disposeRaycaster({CajuId})
       ELSE UNCHANGED bridgeVars
    /\ UNCHANGED <<wasmReady, cajuModel, initWasmPc, indexedMeshes, remaining,
                   traverseCaller, createInvoked>>

\* -------------------------------------------------------------- Benchmark
\* The largest number of rays one raycasting() run casts.
MaxRays == 1

\* raycasting() up to its loops: without a ready kernel it returns at once,
\* else it builds the 'benchmark' raycaster.
raycastingStarts ==
    /\ Idle
    /\ IF ~ready
       THEN /\ benchReturned' = TRUE
            /\ UNCHANGED <<benchPc, raysLeft>>
            /\ UNCHANGED bridgeVars
       ELSE /\ createRaycaster({BenchmarkId})
            /\ benchPc' = "raycasting"
            /\ benchReturned' = FALSE
            /\ \E iterations \in 1..MaxRays : raysLeft' = iterations

\* One WasmBridge.raycast('benchmark', ...) of the loops; an exception leaves
\* the try block for its catch, and raycasting() returns.
raycastingCasts ==
    /\ benchPc = "raycasting"
    /\ raysLeft > 0
    /\ raycast({BenchmarkId})
    /\ IF lastCall'.result = "throw"
       THEN /\ benchPc' = "idle"
            /\ raysLeft' = 0
            /\ benchReturned' = TRUE
       ELSE /\ raysLeft' = raysLeft - 1
            /\ UNCHANGED <<benchPc, benchReturned>>

\* The end of the try block: WasmBridge.disposeRaycaster('benchmark').
raycastingCleansUp ==
    /\ benchPc = "raycasting"
    /\ raysLeft = 0
    /\ disposeRaycaster({BenchmarkId})
    /\ benchPc' = "idle"
    /\ benchReturned' = TRUE
    /\ UNCHANGED raysLeft

\* ------------------------------------------------------------ blue noise
NumSeeds == 2
Seeds == 1..NumSeeds
NoiseSizes == {1, 2}

\* 2^octave (1 << octave)
RECURSIVE Freq(_)
Freq(octave) == IF octave = 0 THEN 1 ELSE 2 * Freq(octave - 1)

\* A hash that also reads something other than its arguments.
hash2dReadingState(x, y, s) == <<"hash2d", x, y, s, jsNoise.tick>>

\* hash2d(x, y, s): integer mixing of its three arguments, scaled to [0, 1].
hash2d(x, y, s) == <<"hash2d", x, y, s>>

\* The byte of pixel (x, y): four octaves of hash2d, weighted 1, 1/2, 1/4,
\* 1/8, normalised and scaled to 0..255.
PixelByte(size, seed, x, y) ==
    <<"byte",
      [octave \in 0..3 |->
          LET freq == Freq(octave)
              offset == octave * 17
          IN  hash2d((x * freq + offset) % size,
                     (y * freq + offset * 3) % size,
                     seed)]>>

\* generateBlueNoiseJS(size, seed): size * size RGBA pixels, grey and opaque.
generateBlueNoiseJS(size, seed) ==
    [i \in 1..(size * size * 4) |->
        LET idx == (i - 1) \div 4
            x == idx % size
            y == idx \div size
        IN  IF (i - 1) % 4 = 3 THEN <<255>> ELSE PixelByte(size, seed, x, y)]

\* noiseTextureGeneration() evaluates the generator again and again.
noiseTextureGeneration ==
    \E size \in NoiseSizes, seed \in Seeds :
        jsNoise' = [size |-> size, seed |-> seed,
                    data |-> generateBlueNoiseJS(size, seed),
                    previous |-> [size |-> jsNoise.size, seed |-> jsNoise.seed,
                                  data |-> jsNoise.data],
                    tick |-> ~jsNoise.tick]

\* ----------------------------------------------------- PerformanceManager
skipRates == [string |-> 2, archText |-> 3, billboards |-> 2, flicker |-> 4]

\* skipRates[system] || 1
Rate(system) == IF system \in DOMAIN skipRates THEN skipRates[system] ELSE 1

\* this._updateCounters[system] || 0
Counter(system) ==
    IF system \in DOMAIN _updateCounters THEN _updateCounters[system] ELSE 0

SetCounter(system, value) ==
    [s \in DOMAIN _updateCounters \cup {system} |->
        IF s = system THEN value ELSE _updateCounters[s]]

\* A test that lets the counter pass the rate before it resets.
ReachedRateLate(count, rate) == count > rate

\* if (this._updateCounters[system] >= rate)
ReachedRate(count, rate) == count >= rate

\* shouldUpdate(system), answering `result`.
ShouldUpdateAnswers(system, result) ==
    IF powerMode = "normal"
    THEN /\ result = TRUE
         /\ UNCHANGED <<_updateCounters, lowCalls>>
    ELSE LET rate == Rate(system)
             count == Counter(system) + 1
         IN  /\ result = ReachedRate(count, rate)
             /\ _updateCounters' = SetCounter(system, IF result THEN 0 ELSE count)
             /\ lowCalls' = [lowCalls EXCEPT ![system] = (@ + 1) % rate]

shouldUpdate(S) ==
    \E system \in S, result \in BOOLEAN :
        /\ ShouldUpdateAnswers(system, result)
        /\ lastShould' = [NoAnswer EXCEPT !.system = system, !.mode = powerMode,
                                          !.result = result,
                                          !.tick = ~lastShould.tick]
        /\ UNCHANGED <<powerMode, elapsed>>

\* update(deltaTime), as far as the power mode goes: on a thirtieth frame a
\* slow frame rate switches to low power and a fast one back to normal, and
\* the initial adjustment of a slow device switches to low power.
update ==
    /\ \E mode \in {"normal", "low-power"} : powerMode' = mode
    /\ UNCHANGED <<_updateCounters, lastShould, lowCalls, elapsed>>

\* getEffectiveDelta(system, deltaTime)
getEffectiveDelta(system, deltaTime) ==
    IF powerMode = "normal" THEN deltaTime ELSE deltaTime * Rate(system)

\* The frame deltas a frame may bring.
MaxDelta == 2
Deltas == 1..MaxDelta

\* One frame of a throttled system: it asks shouldUpdate(system) and, when
\* told to update, advances by getEffectiveDelta(system, deltaTime).
Frame(S, D) ==
    \E system \in S, deltaTime \in D, result \in BOOLEAN :
        /\ ShouldUpdateAnswers(system, result)
        /\ lastShould' =
               [system |-> system, mode |-> powerMode, result |-> result,
                delta |-> deltaTime,
                effective |-> IF result
                              THEN getEffectiveDelta(system, deltaTime)
                              ELSE 0,
                tick |-> ~lastShould.tick]
        /\ elapsed' = [elapsed EXCEPT
                           ![system] = IF result THEN 0 ELSE @ + deltaTime]
        /\ UNCHANGED powerMode

\* ------------------------------------------------------------ Caju: audio
\* The most buffer sources created.
MaxSources == 3

\* The audio fields as one value, for the methods that call one another.
SoundState ==
    [audioContext |-> audioContext, soundsPc |-> soundsPc,
     currentSource |-> currentSource, soundQueue |-> soundQueue,
     playing |-> playing, awaitingEnded |-> awaitingEnded,
     nextSource |-> nextSource, lastStart |-> lastStart]

SetSound(a) ==
    /\ audioContext' = a.audioContext
    /\ soundsPc' = a.soundsPc
    /\ currentSource' = a.currentSource
    /\ soundQueue' = a.soundQueue
    /\ playing' = a.playing
    /\ awaitingEnded' = a.awaitingEnded
    /\ nextSource' = a.nextSource
    /\ lastStart' = a.lastStart

\* unlockAudio(): the first call creates the context and starts
\* _loadSounds().
unlockAudio(a) ==
    IF ~a.audioContext
    THEN [a EXCEPT !.audioContext = TRUE, !.soundsPc = "loading"]
    ELSE a

\* _stopCurrentSound(): stop() silences the source, whose 'ended' event is
\* dispatched later; its onended handler stays in place.
_stopCurrentSound(a) ==
    IF a.currentSource # 0
    THEN [a EXCEPT !.playing = @ \ {a.currentSource}, !.currentSource = 0]
    ELSE a

\* createBufferSource(), this.currentSource = source, source.onended = ...,
\* source.start(0)
StartSource(a, type, from, ended) ==
    [a EXCEPT !.currentSource = a.nextSource,
              !.playing = @ \cup {a.nextSource},
              !.awaitingEnded = @ \cup {a.nextSource},
              !.nextSource = @ + 1,
              !.lastStart = [source |-> a.nextSource, type |-> type,
                             from |-> from, ended |-> ended,
                             beside |-> a.playing]]

\* playSound(type, cancelQueue), called by a handler (from = "call") or by
\* the onended handler of source `ended` (from = "ended").
playSound(a, type, cancelQueue, from, ended) ==
    IF ~a.audioContext
    THEN a
    ELSE LET b == IF cancelQueue
                  THEN [_stopCurrentSound(a) EXCEPT !.soundQueue = <<>>]
                  ELSE a
         IN  IF b.soundsPc # "loaded"
             THEN b
             ELSE IF b.currentSource # 0
                  THEN [b EXCEPT !.soundQueue = Append(@, type)]
                  ELSE StartSource(b, type, from, ended)

\* _loadSounds() after its await: both buffers are stored, or the catch
\* block leaves both null.
SoundsLoaded ==
    /\ soundsPc = "loading"
    /\ \E ok \in BOOLEAN : soundsPc' = IF ok THEN "loaded" ELSE "failed"
    /\ UNCHANGED <<audioContext, currentSource, soundQueue, inflateRipple,
                   ripples, playing, awaitingEnded, nextSource, lastStart>>

\* this.glassUniforms?.uTime.value || 0
CurrentTime == IF glassUniforms.kind = "null" THEN 0 ELSE uTime

\* handleClick(hitPoint, camera)
handleClick ==
    /\ nextSource <= MaxSources
    /\ ripples' = <<>>
    /\ inflateRipple' = TRUE
    /\ SetSound(playSound(unlockAudio(SoundState), "in", TRUE, "call", 0))

\* handlePress(mouseNDC, camera): the hit point comes from the BVH when the
\* bridge is ready and answers, else from Three.js; without one nothing is
\* played.
handlePressReturns(result) ==
    /\ nextSource <= MaxSources
    /\ mesh # 0
    /\ IF ready THEN raycast({CajuId}) ELSE UNCHANGED bridgeVars
    /\ \E threeHit \in BOOLEAN :
          LET a == unlockAudio(SoundState)
              threw == ready /\ lastCall'.result = "throw"
              hit == (ready /\ lastCall'.result = "hit") \/ threeHit
          IN  /\ result = (~threw /\ hit)
              /\ IF result
                 THEN /\ ripples' = <<>>
                      /\ inflateRipple' = TRUE
                      /\ SetSound(playSound(a, "in", TRUE, "call", 0))
                 ELSE /\ SetSound(a)
                      /\ UNCHANGED <<inflateRipple, ripples>>

handlePress == \E result \in BOOLEAN : handlePressReturns(result)

\* A release that leaves the inflating ripple in place.
handleReleaseKeepsPull ==
    /\ nextSource <= MaxSources
    /\ inflateRipple
    /\ ripples' = <<[time |-> CurrentTime]>>
    /\ UNCHANGED inflateRipple
    /\ SetSound(playSound(SoundState, "out", FALSE, "call", 0))

\* handleRelease()
handleRelease ==
    /\ nextSource <= MaxSources
    /\ inflateRipple
    /\ ripples' = <<[time |-> CurrentTime]>>
    /\ inflateRipple' = FALSE
    /\ SetSound(playSound(SoundState, "out", FALSE, "call", 0))

\* A playing source reaches the end of its buffer.
SourceFinishes ==
    /\ \E source \in playing : playing' = playing \ {source}
    /\ UNCHANGED <<audioContext, soundsPc, currentSource, soundQueue,
                   inflateRipple, ripples, awaitingEnded, nextSource,
                   lastStart>>

\* The 'ended' event of a source that finished or was stopped: its onended
\* handler clears currentSource and plays the head of the queue.
EndedFires ==
    /\ nextSource <= MaxSources
    /\ \E source \in awaitingEnded \ playing :
          LET a == [SoundState EXCEPT !.currentSource = 0,
                                      !.awaitingEnded = @ \ {source}]
          IN  IF Len(a.soundQueue) > 0
              THEN SetSound(playSound([a EXCEPT !.soundQueue = Tail(@)],
                                      Head(a.soundQueue), FALSE, "ended",
                                      source))
              ELSE SetSound(a)
    /\ UNCHANGED <<inflateRipple, ripples>>

\* ------------------------------------------------------ App: pointer events
\* Camera.enableControls() left out.
enableControlsSkipped == UNCHANGED controlsEnabled

\* Camera.enableControls()
enableControls == controlsEnabled' = TRUE

\* Camera.disableControls()
disableControls == controlsEnabled' = FALSE

\* The touches an event carries.
MaxTouches == 1

\* An event whose handler returned at its first line.
Ignored(kind) ==
    /\ lastEvent' = [NoEvent EXCEPT !.kind = kind, !.tick = ~lastEvent.tick]
    /\ UNCHANGED <<isDragging, controlsEnabled, soundVars, bridgeVars>>

\* onMouseDown / onTouchStart past the early return: unlockAudio(), then
\* handlePress(); a hit starts the drag and freezes the camera.
Pressed(kind) ==
    \E result \in BOOLEAN :
        /\ handlePressReturns(result)
        /\ IF result
           THEN isDragging' = TRUE /\ disableControls
           ELSE UNCHANGED <<isDragging, controlsEnabled>>
        /\ lastEvent' = [NoEvent EXCEPT !.kind = kind, !.handled = TRUE,
                                        !.hit = result,
                                        !.tick = ~lastEvent.tick]

\* updatePullPosition(mouseNDC, camera) moves the inflating ripple, if any.
updatePullPosition == UNCHANGED soundVars

\* onMouseMove / onTouchMove past the early return.
Moved(kind) ==
    /\ updatePullPosition
    /\ lastEvent' = [NoEvent EXCEPT !.kind = kind, !.handled = TRUE,
                                    !.pulled = TRUE,
                                    !.tick = ~lastEvent.tick]
    /\ UNCHANGED <<isDragging, controlsEnabled, bridgeVars>>

\* onMouseUp / onTouchEnd past the early return: a drag ends and the camera
\* is released; handleRelease() is called either way.
Released(kind) ==
    /\ IF isDragging
       THEN enableControls /\ isDragging' = FALSE
       ELSE UNCHANGED <<isDragging, controlsEnabled>>
    /\ IF inflateRipple THEN handleRelease ELSE UNCHANGED soundVars
    /\ lastEvent' = [NoEvent EXCEPT !.kind = kind, !.handled = TRUE,
                                    !.tick = ~lastEvent.tick]
    /\ UNCHANGED bridgeVars

onMouseDown ==
    IF cajuModel = 0 THEN Ignored("onMouseDown") ELSE Pressed("onMouseDown")

onMouseMove ==
    IF ~isDragging \/ cajuModel = 0
    THEN Ignored("onMouseMove")
    ELSE Moved("onMouseMove")

onMouseUp ==
    IF cajuModel = 0 THEN Ignored("onMouseUp") ELSE Released("onMouseUp")

onTouchStart ==
    \E touches \in 0..MaxTouches :
        IF cajuModel = 0 \/ touches = 0
        THEN Ignored("onTouchStart")
        ELSE Pressed("onTouchStart")

onTouchMove ==
    \E touches \in 0..MaxTouches :
        IF ~isDragging \/ cajuModel = 0 \/ touches = 0
        THEN Ignored("onTouchMove")
        ELSE Moved("onTouchMove")

onTouchEnd ==
    IF cajuModel = 0 THEN Ignored("onTouchEnd") ELSE Released("onTouchEnd")

\* ---------------------------------------------------------- Caju: ripples
\* CONFIG.RIPPLE_LIFETIME, 1.5 s, in the half seconds shader time is counted
\* in.
RIPPLE_LIFETIME == 3

\* The shader time up to which releases and idle frames are followed.
MaxTime == 4

\* currentTime - r.time < CONFIG.RIPPLE_LIFETIME
Alive(r, currentTime) == currentTime - r.time < RIPPLE_LIFETIME

\* this.ripples.filter((r) => ...)
FilterRipples(list, currentTime) ==
    SelectSeq(list, LAMBDA r : Alive(r, currentTime))

\* _updateRippleUniforms(uniforms), slot 0, on uniforms that have the
\* ripple arrays: the ripple being inflated first, else the first ripple.
SlotZero(inflating, list) ==
    IF ~ripplesEnabled THEN NoSlot
    ELSE IF inflating THEN [type |-> 1, time |-> 0]
    ELSE IF Len(list) > 0 THEN [type |-> 0, time |-> list[1].time]
    ELSE NoSlot

\* One of Caju's interaction or update methods was called.
CajuCalled(op) == lastCajuCall' = [op |-> op, tick |-> ~lastCajuCall.tick]

\* update(deltaTime): without glass uniforms it returns after the base
\* class's update; else shader time advances, expired ripples are dropped,
\* and the inverse matrix and the ripple uniforms are refreshed.
Caju_update(D, Ms) ==
    \E dt \in D :
        /\ CajuCalled("update")
        /\ IF glassUniforms.kind = "null"
           THEN UNCHANGED <<bridgeVars, cajuVars, soundVars, uTime, rippleSlot>>
           ELSE /\ ripples # <<>> \/ uTime + dt <= MaxTime
                /\ uTime' = uTime + dt
                /\ ripples' = FilterRipples(ripples, uTime')
                /\ _updateInverseMatrix(Ms)
                /\ rippleSlot' = IF glassUniforms.kind = "shader"
                                 THEN SlotZero(inflateRipple, ripples')
                                 ELSE rippleSlot
                /\ UNCHANGED <<audioContext, soundsPc, currentSource,
                               soundQueue, inflateRipple, playing,
                               awaitingEnded, nextSource, lastStart>>

\* The glass eye's first compile: shader.uniforms, with uTime at 0.
GlassCompiledFirst ==
    /\ glassUniforms.kind = "null"
    /\ GlassCompiled
    /\ uTime' = 0
    /\ UNCHANGED <<rippleSlot, lastCajuCall>>

Caju_handleClick ==
    /\ handleClick
    /\ CajuCalled("handleClick")
    /\ UNCHANGED <<uTime, rippleSlot>>

Caju_handlePress ==
    /\ handlePress
    /\ CajuCalled("handlePress")
    /\ UNCHANGED <<uTime, rippleSlot>>

Caju_updatePullPosition ==
    /\ updatePullPosition
    /\ CajuCalled("updatePullPosition")
    /\ UNCHANGED <<uTime, rippleSlot>>

\* handleRelease(), its early return included.
Caju_handleRelease ==
    /\ IF inflateRipple
       THEN uTime <= MaxTime /\ handleRelease
       ELSE UNCHANGED soundVars
    /\ CajuCalled("handleRelease")
    /\ UNCHANGED <<uTime, rippleSlot>>

\* ------------------------------------------ PerformanceManager: monitoring
\* Frame times are counted in 1/4200 s, so that 1.0 / deltaTime is a whole
\* number of frames per second for the frame times used.
TicksPerSecond == 4200

\* const fps = 1.0 / deltaTime
Fps(dt) == TicksPerSecond \div dt

\* Frame times of 40, 35, 25 and 15 frames per second.
FrameTimes == {105, 120, 168, 280}

\* if (this.frameCount % 30 === 0)
CheckPeriod == 30

\* this.lowPowerThreshold = 25
lowPowerThreshold == 25

\* minSamples, 50 under software rendering and 30 otherwise in the source,
\* scaled down; and the most samples followed.
MinSamplesSoftware == 2
MinSamplesHardware == 1
MaxSamples == 3

minSamples(software) ==
    IF software = "true" THEN MinSamplesSoftware ELSE MinSamplesHardware

\* recentFps < this.lowPowerThreshold && this.powerMode === NORMAL
SwitchesToLowPower(fps, mode) == fps < lowPowerThreshold /\ mode = "normal"

\* A switch back as soon as the threshold is passed.
SwitchesToNormalAtThreshold(fps, mode) ==
    fps > lowPowerThreshold /\ mode = "low-power"

\* recentFps > this.lowPowerThreshold + 10 && this.powerMode === LOW_POWER
SwitchesToNormal(fps, mode) ==
    fps > lowPowerThreshold + 10 /\ mode = "low-power"

\* The power mode after the periodic check of frame number count.
CheckedMode(count, fps, mode) ==
    IF count % CheckPeriod # 0 THEN mode
    ELSE IF SwitchesToLowPower(fps, mode) THEN "low-power"
    ELSE IF SwitchesToNormal(fps, mode) THEN "normal"
    ELSE mode

RECURSIVE Sum(_)
\* this.fpsHistory.reduce((a, b) => a + b, 0)
Sum(history) ==
    IF history = <<>> THEN 0 ELSE Head(history) + Sum(Tail(history))

\* this.fpsHistory.filter((f) => f < 20).length
DropsBelow20(history) ==
    Cardinality({i \in DOMAIN history : history[i] < 20})

\* avgFPS < 25 || dropRate > 0.3
SlowDevice(history) ==
    \/ Sum(history) < 25 * Len(history)
    \/ 10 * DropsBelow20(history) > 3 * Len(history)

\* A test that goes on monitoring after the adjustment.
SkipsMonitoringUntilStarted == ~monitoringStarted

\* if (this.hasAdjusted || !this.monitoringStarted) return;
SkipsMonitoring == hasAdjusted \/ ~monitoringStarted

\* startMonitoring(callback)
startMonitoring ==
    /\ monitoringStarted' = TRUE
    /\ clockPast' = FALSE
    /\ IF isSoftwareRendering = "unread"
       THEN isSoftwareRendering' \in {"true", "false"}
       ELSE UNCHANGED isSoftwareRendering
    /\ UNCHANGED <<frameCount, hasAdjusted, fpsHistory, settingsChanges,
                   lastDelta, perfVars>>

\* performance.now() passes monitoringStartTime + monitoringDuration.
ClockPasses ==
    /\ monitoringStarted
    /\ ~clockPast
    /\ clockPast' = TRUE
    /\ UNCHANGED <<frameCount, monitoringStarted, hasAdjusted, fpsHistory,
                   isSoftwareRendering, settingsChanges, lastDelta, perfVars>>

\* update(deltaTime): the frame count, the periodic power-mode check, and,
\* while monitoring, the sample and the one initial adjustment, which calls
\* the settings-change callback for a slow device. (The frame-budget
\* statistics are not followed.)
PerformanceManager_update(D) ==
    \E dt \in D :
        LET fps == Fps(dt)
            count == frameCount + 1
            mode == CheckedMode(count, fps, powerMode)
        IN  /\ frameCount' = count % CheckPeriod
            /\ lastDelta' = dt
            /\ IF SkipsMonitoring
               THEN /\ powerMode' = mode
                    /\ UNCHANGED <<hasAdjusted, fpsHistory, settingsChanges>>
               ELSE /\ Len(fpsHistory) < MaxSamples
                    /\ fpsHistory' = Append(fpsHistory, fps)
                    /\ IF /\ clockPast
                          /\ Len(fpsHistory') > minSamples(isSoftwareRendering)
                       THEN /\ hasAdjusted' = TRUE
                            /\ IF SlowDevice(fpsHistory')
                               THEN /\ powerMode' = "low-power"
                                    /\ settingsChanges' = settingsChanges + 1
                               ELSE /\ powerMode' = mode
                                    /\ UNCHANGED settingsChanges
                       ELSE /\ powerMode' = mode
                            /\ UNCHANGED <<hasAdjusted, settingsChanges>>
            /\ UNCHANGED <<monitoringStarted, isSoftwareRendering, clockPast,
                           _updateCounters, lastShould, lowCalls, elapsed>>

\* --------------------------------------------------------- specifications
\* The bridge's whole surface, with one initialize() call, one registry id
\* and one matrix.
Next ==
    \/ initialize(1) /\ UNCHANGED componentVars
    \/ ImportSettles /\ UNCHANGED componentVars
    \/ InstantiateSettles /\ UNCHANGED componentVars
    \/ dispose /\ UNCHANGED componentVars
    \/ createRaycaster(OneId) /\ UNCHANGED componentVars
    \/ raycast(OneId) /\ UNCHANGED componentVars
    \/ disposeRaycaster(OneId) /\ UNCHANGED componentVars
    \/ generateNoiseTexture /\ UNCHANGED componentVars
    \/ generateBlueNoiseTexture /\ UNCHANGED componentVars
    \/ generateColorLUT /\ UNCHANGED componentVars
    \/ createRippleSimulator /\ UNCHANGED componentVars
    \/ invertMatrixZeroCopy(OneMatrix) /\ UNCHANGED componentVars
    \/ normalMatrixZeroCopy(OneMatrix) /\ UNCHANGED componentVars
    \/ mvpMatrixZeroCopy(OneMatrix) /\ UNCHANGED componentVars
    \/ invertMatrixShared(OneMatrix) /\ UNCHANGED componentVars
    \/ normalMatrixShared(OneMatrix) /\ UNCHANGED componentVars
    \/ mvpMatrixShared(OneMatrix) /\ UNCHANGED componentVars
    \/ computeInverseMatrix(OneMatrix) /\ UNCHANGED componentVars
    \/ computeNormalMatrix(OneMatrix) /\ UNCHANGED componentVars

Spec == Init /\ [][Next]_vars

\* The raycaster registry under every id, through the bridge's life.
NextRegistry ==
    \/ initialize(1) /\ UNCHANGED componentVars
    \/ ImportSettles /\ UNCHANGED componentVars
    \/ InstantiateSettles /\ UNCHANGED componentVars
    \/ dispose /\ UNCHANGED componentVars
    \/ createRaycaster(Ids) /\ UNCHANGED componentVars
    \/ raycast(Ids) /\ UNCHANGED componentVars
    \/ disposeRaycaster(Ids) /\ UNCHANGED componentVars

SpecRegistry == Init /\ [][NextRegistry]_vars

\* Initialization: any number of initialize() calls around the two awaits.
NextInit ==
    \/ initialize(MaxInitCalls) /\ UNCHANGED componentVars
    \/ ImportSettles /\ UNCHANGED componentVars
    \/ InstantiateSettles /\ UNCHANGED componentVars
    \/ dispose /\ UNCHANGED componentVars

SpecInit == Init /\ [][NextInit]_vars

\* The memory bridge: memory growth and the matrix operations on several
\* matrices.
NextMemory ==
    \/ initialize(1) /\ UNCHANGED componentVars
    \/ ImportSettles /\ UNCHANGED componentVars
    \/ InstantiateSettles /\ UNCHANGED componentVars
    \/ MemoryGrow /\ UNCHANGED componentVars
    \/ invertMatrixZeroCopy(Matrices) /\ UNCHANGED componentVars
    \/ normalMatrixZeroCopy(Matrices) /\ UNCHANGED componentVars
    \/ mvpMatrixZeroCopy(Matrices) /\ UNCHANGED componentVars
    \/ invertMatrixShared(Matrices) /\ UNCHANGED componentVars
    \/ normalMatrixShared(Matrices) /\ UNCHANGED componentVars
    \/ mvpMatrixShared(Matrices) /\ UNCHANGED componentVars
    \/ computeInverseMatrix(Matrices) /\ UNCHANGED componentVars
    \/ computeNormalMatrix(Matrices) /\ UNCHANGED componentVars

SpecMemory == Init /\ [][NextMemory]_vars

\* Caju's inverse model matrix over the bridge's life.
NextCaju ==
    \/ initialize(1) /\ UNCHANGED componentVars
    \/ ImportSettles /\ UNCHANGED componentVars
    \/ InstantiateSettles /\ UNCHANGED componentVars
    \/ dispose /\ UNCHANGED componentVars
    \/ GLTFLoaded /\ UNCHANGED <<bridgeVars, otherThanCaju>>
    \/ GlassCompiled /\ UNCHANGED <<bridgeVars, otherThanCaju>>
    \/ SssCompiled /\ UNCHANGED <<bridgeVars, otherThanCaju>>
    \/ _updateInverseMatrix(Matrices) /\ UNCHANGED otherThanCaju

SpecCaju == Init /\ [][NextCaju]_vars

\* HybridRaycaster.cast while raycasters come and go in the registry.
NextHybrid ==
    \/ initialize(1) /\ UNCHANGED componentVars
    \/ ImportSettles /\ UNCHANGED componentVars
    \/ InstantiateSettles /\ UNCHANGED componentVars
    \/ dispose /\ UNCHANGED componentVars
    \/ createRaycaster(OneId) /\ UNCHANGED componentVars
    \/ disposeRaycaster(OneId) /\ UNCHANGED componentVars
    \/ cast(OneId) /\ UNCHANGED otherThanHybrid

SpecHybrid == Init /\ [][NextHybrid]_vars

\* The application: kernel initialization against model loading, disposal,
\* and benchmark runs.
NextApp ==
    \/ initWasm /\ UNCHANGED <<cajuVars, otherThanApp>>
    \/ Idle /\ ImportSettles /\ UNCHANGED componentVars
    \/ Idle /\ InstantiateSettles /\ UNCHANGED componentVars
    \/ initWasmResumes /\ UNCHANGED <<cajuVars, otherThanApp>>
    \/ CajuLoaded /\ UNCHANGED otherThanApp
    \/ TraverseCreates /\ UNCHANGED <<cajuVars, otherThanApp>>
    \/ App_dispose /\ UNCHANGED <<cajuVars, otherThanApp>>
    \/ raycastingStarts /\ UNCHANGED otherThanBench
    \/ raycastingCasts /\ UNCHANGED otherThanBench
    \/ raycastingCleansUp /\ UNCHANGED otherThanBench

SpecApp == Init /\ [][NextApp]_vars

\* Queries of a registered raycaster, by mesh and ray.
NextQuery ==
    \/ initialize(1) /\ UNCHANGED componentVars
    \/ ImportSettles /\ UNCHANGED componentVars
    \/ InstantiateSettles /\ UNCHANGED componentVars
    \/ createRaycaster(OneId) /\ UNCHANGED componentVars
    \/ disposeRaycaster(OneId) /\ UNCHANGED componentVars
    \/ raycastMesh(OneId) /\ UNCHANGED componentVars

SpecQuery == Init /\ [][NextQuery]_vars

\* Noise generation: the JS generator and the bridge's texture generator.
NextNoise ==
    \/ initialize(1) /\ UNCHANGED componentVars
    \/ ImportSettles /\ UNCHANGED componentVars
    \/ InstantiateSettles /\ UNCHANGED componentVars
    \/ TextureOn("generateBlueNoiseTexture", NoiseSizes) /\ UNCHANGED componentVars
    \/ noiseTextureGeneration /\ UNCHANGED <<bridgeVars, otherThanNoise>>

SpecNoise == Init /\ [][NextNoise]_vars

\* Update throttling, system by system, across power modes.
NextPerf ==
    \/ shouldUpdate(Systems) /\ UNCHANGED <<bridgeVars, otherThanPerf>>
    \/ update /\ UNCHANGED <<bridgeVars, otherThanPerf>>

SpecPerf == Init /\ [][NextPerf]_vars

\* Frames of throttled systems, with varying frame deltas, across power
\* modes.
NextDelta ==
    \/ Frame({"string", "archText", "other"}, Deltas)
           /\ UNCHANGED <<bridgeVars, otherThanPerf>>
    \/ update /\ UNCHANGED <<bridgeVars, otherThanPerf>>

SpecDelta == Init /\ [][NextDelta]_vars

\* Presses, clicks and releases on the Caju model, against the audio
\* context's sources finishing and their 'ended' events.
NextSound ==
    \/ GLTFLoaded /\ UNCHANGED <<bridgeVars, otherThanCaju>>
    \/ SoundsLoaded /\ UNCHANGED <<bridgeVars, otherThanSound>>
    \/ handleClick /\ UNCHANGED <<bridgeVars, otherThanSound>>
    \/ handlePress /\ UNCHANGED otherThanSound
    \/ handleRelease /\ UNCHANGED <<bridgeVars, otherThanSound>>
    \/ SourceFinishes /\ UNCHANGED <<bridgeVars, otherThanSound>>
    \/ EndedFires /\ UNCHANGED <<bridgeVars, otherThanSound>>

SpecSound == Init /\ [][NextSound]_vars

\* Mouse and touch events on the page, before and after the Caju model
\* loads, against the sounds they start.
NextDrag ==
    \/ CajuLoaded /\ UNCHANGED otherThanApp
    \/ SoundsLoaded /\ UNCHANGED <<bridgeVars, otherThanSound>>
    \/ SourceFinishes /\ UNCHANGED <<bridgeVars, otherThanSound>>
    \/ EndedFires /\ UNCHANGED <<bridgeVars, otherThanSound>>
    \/ onMouseDown /\ UNCHANGED otherThanDrag
    \/ onMouseMove /\ UNCHANGED otherThanDrag
    \/ onMouseUp /\ UNCHANGED otherThanDrag
    \/ onTouchStart /\ UNCHANGED otherThanDrag
    \/ onTouchMove /\ UNCHANGED otherThanDrag
    \/ onTouchEnd /\ UNCHANGED otherThanDrag

SpecDrag == Init /\ [][NextDrag]_vars

\* Caju's interaction methods and its per-frame update, called in any
\* order, before and after the model and the glass shader are there.
NextRipple ==
    \/ GLTFLoaded /\ UNCHANGED <<bridgeVars, otherThanCaju>>
    \/ GlassCompiledFirst
           /\ UNCHANGED <<bridgeVars, soundVars, otherThanRipple>>
    \/ SoundsLoaded /\ UNCHANGED <<bridgeVars, otherThanSound>>
    \/ Caju_handleClick /\ UNCHANGED <<bridgeVars, cajuVars, otherThanRipple>>
    \/ Caju_handlePress /\ UNCHANGED <<cajuVars, otherThanRipple>>
    \/ Caju_updatePullPosition
           /\ UNCHANGED <<bridgeVars, cajuVars, otherThanRipple>>
    \/ Caju_handleRelease
           /\ UNCHANGED <<bridgeVars, cajuVars, otherThanRipple>>
    \/ Caju_update(Deltas, OneMatrix) /\ UNCHANGED otherThanRipple

SpecRipple == Init /\ [][NextRipple]_vars

\* The same, with update() called frame after frame.
EveryFrame == Caju_update(Deltas, OneMatrix) /\ UNCHANGED otherThanRipple

SpecRippleFair == SpecRipple /\ WF_vars(EveryFrame)

\* The manager's update() frame after frame, with monitoring started at
\* any moment and the clock passing the monitoring duration at any moment.
NextMonitor ==
    \/ startMonitoring /\ UNCHANGED <<bridgeVars, otherThanMonitor>>
    \/ ClockPasses /\ UNCHANGED <<bridgeVars, otherThanMonitor>>
    \/ PerformanceManager_update(FrameTimes)
           /\ UNCHANGED <<bridgeVars, otherThanMonitor>>

\* The manager reads neither the browser environment nor Caju's settings:
\* one of the initial states stands for all.
MonitorStart ==
    /\ Init
    /\ env = [sab |-> FALSE, coi |-> FALSE, memShared |-> FALSE]
    /\ ripplesEnabled

SpecMonitor == MonitorStart /\ [][NextMonitor]_vars

\* ------------------------------------------------------------ properties
ZeroCopyOps == {"invertMatrixZeroCopy", "normalMatrixZeroCopy", "mvpMatrixZeroCopy"}
SharedOps == {"invertMatrixShared", "normalMatrixShared", "mvpMatrixShared"}
LegacyOps == {"computeInverseMatrix", "computeNormalMatrix"}
TextureOps == {"generateNoiseTexture", "generateBlueNoiseTexture", "generateColorLUT"}
MatrixOps == ZeroCopyOps \cup SharedOps \cup LegacyOps
GuardedOps ==
    MatrixOps \cup TextureOps \cup {"createRaycaster", "createRippleSimulator"}

\* This step is a call of one of ops.
Called(ops) == lastCall'.tick # lastCall.tick /\ lastCall'.op \in ops

\* C1: a view returned by a zero-copy or shared matrix operation is backed
\* by the current wasmMemory.buffer when the call returns, whatever growth
\* events came before; the caller never gets a detached view.
C1_ReturnedViewIsCurrent ==
    (lastCall.op \in ZeroCopyOps \cup SharedOps /\ lastCall.result = "view")
        => (lastCall.current /\ lastCall.data # Detached)

\* A zero-copy call made after a growth returned a re-created view.
C1_Witness ==
    /\ lastCall.op \in ZeroCopyOps
    /\ lastCall.result = "view"
    /\ wasmMemory > 1
    /\ _inverseView = wasmMemory

\* The result the kernel computes from the arguments of a shared call.
ExpectedResult(op, args) ==
    CASE op = "invertMatrixShared" -> Inverse(args[1])
      [] op = "normalMatrixShared" -> Normal(args[1])
      [] op = "mvpMatrixShared" -> Mvp(args[1], args[2], args[3])
      [] OTHER -> NoData

\* C2: every shared call that passes the guard writes its arguments to the
\* staging regions, the kernel reads exactly those, and the returned view
\* shows that call's result - also after the kernel's memory has grown.
C2_SharedCallObservesItsInputs ==
    (lastCall.op \in SharedOps /\ lastCall.result # "null")
        => /\ lastCall.result = "view"
           /\ lastCall.wrote
           /\ lastCall.read = lastCall.args
           /\ lastCall.data = ExpectedResult(lastCall.op, lastCall.args)

\* C3: for an id that is not in the registry, raycast returns null without
\* a kernel call and without throwing, and disposeRaycaster returns without
\* changing the registry, in every state of the bridge.
C3_UnknownIdIsNoOp ==
    [][\A id \in Ids :
          /\ (Called({"raycast"}) /\ lastCall'.id = id /\ _raycasters[id] = 0)
                => /\ lastCall'.result = "null"
                   /\ ~lastCall'.kernelCalled
                   /\ _raycasters' = _raycasters
          /\ (Called({"disposeRaycaster"}) /\ lastCall'.id = id
                /\ _raycasters[id] = 0)
                => /\ lastCall'.result = "void"
                   /\ _raycasters' = _raycasters]_vars

\* raycast of an unregistered id on a ready bridge that holds another entry.
C3_Witness ==
    /\ lastCall.op = "raycast"
    /\ lastCall.result = "null"
    /\ ~lastCall.kernelCalled
    /\ _raycasters[lastCall.id] = 0
    /\ \E j \in Ids : _raycasters[j] # 0

\* C4: disposeRaycaster(id) removes exactly the entry of id; the entry of id
\* comes back only by a successful createRaycaster(id); until then raycast(id)
\* returns null, and raycast of another, registered id is answered by the
\* raycaster registered there.
C4_DisposeInvalidatesExactlyThatKey ==
    [][\A id \in Ids :
          /\ (Called({"disposeRaycaster"}) /\ lastCall'.id = id)
                => /\ _raycasters'[id] = 0
                   /\ \A j \in Ids \ {id} : _raycasters'[j] = _raycasters[j]
          /\ (_raycasters[id] = 0 /\ _raycasters'[id] # 0)
                => /\ Called({"createRaycaster"})
                   /\ lastCall'.id = id
                   /\ lastCall'.result = "handle"
                   /\ lastCall'.handle = _raycasters'[id]
          /\ (Called({"raycast"}) /\ lastCall'.id = id)
                => IF _raycasters[id] = 0
                   THEN lastCall'.result = "null" /\ ~lastCall'.kernelCalled
                   ELSE /\ lastCall'.kernelCalled
                        /\ lastCall'.handle = _raycasters[id]
                        /\ lastCall'.result \in IntersectOutcomes]_vars

\* Two raycasters were built, the first is still registered and the second
\* was just removed by disposeRaycaster.
C4_Witness ==
    /\ lastCall.op = "disposeRaycaster"
    /\ _raycasters[lastCall.id] = 0
    /\ nextRaycaster = 3
    /\ \E j \in Ids \ {lastCall.id} : _raycasters[j] = 1

\* C5: a matrix operation, a texture generator, createRaycaster or
\* createRippleSimulator called while the bridge is not ready returns null,
\* calls nothing in the kernel and writes nothing to its memory.
C5_NotReadyReturnsNull ==
    [][(Called(GuardedOps) /\ ~ready)
          => /\ lastCall'.result = "null"
             /\ ~lastCall'.kernelCalled
             /\ ~lastCall'.wrote
             /\ kernel' = kernel
             /\ _raycasters' = _raycasters
             /\ _rippleSimulators' = _rippleSimulators]_vars

\* A matrix operation refused on a bridge whose initialization failed after
\* the MatrixComputer had been created.
C5_Witness ==
    /\ ~ready
    /\ _matrix # 0
    /\ initError = "SetupError"
    /\ lastCall.op \in MatrixOps
    /\ lastCall.result = "null"

\* C8: shared support implies that SharedArrayBuffer was defined, the page
\* was cross-origin isolated and the three input views were created; without
\* it a shared operation returns null, writes nothing and calls nothing; a
\* by-value operation on a ready bridge with a MatrixComputer returns a
\* result, with or without shared support.
C8_TierAvailability ==
    /\ [](_sharedSupported
            => /\ env.sab
               /\ env.coi
               /\ _inputView # 0
               /\ _viewMatrixView # 0
               /\ _projectionView # 0)
    /\ [][/\ (Called(SharedOps) /\ ~_sharedSupported)
                => /\ lastCall'.result = "null"
                   /\ ~lastCall'.kernelCalled
                   /\ ~lastCall'.wrote
                   /\ kernel' = kernel
          /\ (Called(ZeroCopyOps) /\ ready /\ _matrix # 0)
                => lastCall'.result = "view" /\ lastCall'.data # Detached
          /\ (Called(LegacyOps) /\ ready /\ _matrix # 0)
                => lastCall'.result = "value"]_vars

\* A by-value result on a ready bridge whose shared tier is unavailable
\* although SharedArrayBuffer exists: the page is not isolated.
C8_Witness ==
    /\ ready
    /\ ~_sharedSupported
    /\ env.sab
    /\ ~env.coi
    /\ lastCall.op \in ZeroCopyOps
    /\ lastCall.result = "view"

\* C9: once dispose() has been called the bridge is never ready again, and
\* every later raycast and matrix operation returns null.
C9_DisposeIsFinal ==
    disposed
        => /\ ~ready
           /\ (lastCall.op = "raycast" => lastCall.result = "null")
           /\ (lastCall.op \in MatrixOps => lastCall.result = "null")

\* C10: createRaycaster either registers the raycaster it built under id and
\* returns it, or returns null and leaves the registry as it was; it returns
\* null when the bridge is not ready and when the construction throws; the
\* raycaster a raycast uses is the one the registry holds.
C10_CreateRaycasterOutcomes ==
    [][\A id \in Ids :
          /\ (Called({"createRaycaster"}) /\ lastCall'.id = id)
                => /\ \/ /\ lastCall'.result = "handle"
                         /\ lastCall'.handle # 0
                         /\ \A j \in Ids : _raycasters[j] # lastCall'.handle
                         /\ _raycasters' =
                                [_raycasters EXCEPT ![id] = lastCall'.handle]
                      \/ /\ lastCall'.result = "null"
                         /\ _raycasters' = _raycasters
                   /\ (~ready \/ lastCall'.data = <<"constructor threw">>)
                         => lastCall'.result = "null"
          /\ (Called({"raycast"}) /\ lastCall'.id = id /\ lastCall'.kernelCalled)
                => lastCall'.handle = _raycasters[id]]_vars

\* The construction threw while a raycaster was registered under the id,
\* and that raycaster is still there.
C10_Witness ==
    /\ lastCall.op = "createRaycaster"
    /\ lastCall.result = "null"
    /\ lastCall.data = <<"constructor threw">>
    /\ _raycasters[lastCall.id] # 0

\* The error the failed step of _doInitialize threw.
ThrownError ==
    IF ~wasmModule.loaded THEN "ImportError"
    ELSE IF wasmMemory = 0 THEN "InstantiateError"
    ELSE "SetupError"

\* Every initialize() call so far returned one and the same promise object.
SamePromiseReturned ==
    \A i, j \in DOMAIN initReturns : initReturns[i].promise = initReturns[j].promise

\* Every initialize() call so far returned a promise that settles as the
\* stored readyPromise does.
SameOutcomeReturned ==
    \A i \in DOMAIN initReturns : initReturns[i].follows = readyPromise

\* C6 as stated: after a failed initialization the promise is fulfilled with
\* false, the bridge is not ready, getError() is the thrown error, the load
\* ran once, and every initialize() call returned the same promise object.
C6_FailedInitSamePromise ==
    promiseValue = "false"
        => /\ ~ready
           /\ initError = ThrownError
           /\ doInitRuns = 1
           /\ SamePromiseReturned

\* C6, amended: after a failed initialization the promise of the one
\* _doInitialize run is fulfilled with false, the bridge is not ready,
\* getError() is the thrown error, and no later initialize() call starts the
\* load again: each returns a promise of its own that settles as that one
\* settled promise does.
C6_FailedInitIsNotRetried ==
    /\ [](promiseValue = "false"
            => /\ ~ready
               /\ initError = ThrownError
               /\ doInitRuns = 1
               /\ pc = "done"
               /\ SameOutcomeReturned)
    /\ [][promiseValue = "false"
            => /\ promiseValue' = "false"
               /\ ~ready'
               /\ initError' = initError
               /\ doInitRuns' = doInitRuns
               /\ wasmModule' = wasmModule]_vars

\* initialize() was called again after the initialization had failed.
C6_Witness ==
    /\ promiseValue = "false"
    /\ \E i \in DOMAIN initReturns : initReturns[i].state = "false"

\* C7 as stated: _doInitialize runs at most once and every initialize() call
\* returns the same promise object.
C7_EveryCallSamePromise ==
    /\ doInitRuns <= 1
    /\ SamePromiseReturned

\* C7, amended: _doInitialize runs at most once (one MatrixComputer, one
\* TextureGenerator, one set of views), also for calls made while the load is
\* awaited, and every initialize() call returns a promise of its own that
\* settles as the one stored readyPromise does.
C7_SingleInitialization ==
    /\ doInitRuns <= 1
    /\ readyPromise \in {0, 1}
    /\ _matrix \in {0, 1}
    /\ _textureGen \in {0, 1}
    /\ SameOutcomeReturned

\* A second initialize() call was made while the first was awaiting the load.
C7_Witness ==
    /\ Len(initReturns) >= 2
    /\ initReturns[2].state = "pending"
    /\ ready

\* This step is an _updateInverseMatrix() call that got past the mesh test.
Updated == lastUpdate'.tick # lastUpdate.tick

\* The bridge handed this update a kernel result.
KernelResultReturned ==
    /\ Called({"computeInverseMatrix"})
    /\ lastCall'.result = "value"

EveryUniformHolds(glass, sss, value) ==
    /\ glass.kind = "shader" => glass.uInverseModelMatrix = value
    /\ \A i \in DOMAIN sss : sss[i].uInverseModelMatrix = value

\* C11: in every bridge state, an _updateInverseMatrix() call with a loaded
\* mesh assigns _inverseMatrix from exactly one source: the kernel's result
\* when the bridge returned one (which it does exactly when it is ready and
\* has a MatrixComputer), the Three.js inversion of matrixWorld otherwise;
\* the Three.js inversion runs iff the kernel produced no result, and every
\* shader uniform ends up holding the value assigned.
C11_InverseFromExactlyOneSource ==
    [][Updated =>
        LET m == lastUpdate'.matrixWorld
        IN  /\ mesh # 0
            /\ KernelResultReturned <=> (ready /\ _matrix # 0)
            /\ ~KernelResultReturned => UNCHANGED lastCall \/ lastCall'.result = "null"
            /\ lastUpdate'.ran = IF KernelResultReturned THEN {"fromArray"}
                                                         ELSE {"invert"}
            /\ _inverseMatrix' = IF KernelResultReturned THEN Inverse(m)
                                                         ELSE ThreeInvert(m)
            /\ KernelResultReturned => lastCall'.data = _inverseMatrix'
            /\ EveryUniformHolds(glassUniforms', sssUniforms', _inverseMatrix')]_vars

\* The bridge is ready but its module has no MatrixComputer: the update asked
\* the bridge, got null, ran the Three.js inversion and filled the uniforms.
C11_Witness ==
    /\ ready /\ _matrix = 0
    /\ lastUpdate.bridgeCalled /\ lastUpdate.ran = {"invert"}
    /\ glassUniforms.kind = "shader"
    /\ Len(sssUniforms) = MaxSss
    /\ _inverseMatrix = ThreeInvert(lastUpdate.matrixWorld)
    /\ EveryUniformHolds(glassUniforms, sssUniforms, _inverseMatrix)

\* This step is a cast().
CastMade == lastCast'.tick # lastCast.tick

\* C12: whenever no BVH raycaster is usable for the caster's wasmId (the
\* bridge is not ready, or it is ready with no raycaster registered under
\* wasmId), cast() answers with the Three.js intersection result.
C12_CastFallsBackToThree ==
    [][(CastMade /\ (~ready \/ _raycasters[lastCast'.wasmId] = 0))
          => lastCast'.result = lastCast'.three]_vars

\* C13: registry entries are never orphaned: once Benchmark.raycasting() has
\* returned, 'benchmark' is not in the registry, and once App.dispose() has
\* run, 'caju' is not in the registry, on every path.
C13_NoOrphanedRaycaster ==
    /\ (benchReturned /\ benchPc = "idle") => _raycasters[BenchmarkId] = 0
    /\ (appDisposed /\ remaining = 0) => _raycasters[CajuId] = 0

InverseOps == {"computeInverseMatrix", "invertMatrixZeroCopy", "invertMatrixShared"}

\* The bridge is ready and offers the tier of op.
TierAvailable(op) == IF op \in SharedOps THEN SharedGuard ELSE MatrixGuard

\* C14: on a ready bridge that offers the operation, computeInverseMatrix,
\* invertMatrixZeroCopy and invertMatrixShared called with a singular matrix
\* return a well-formed result, the substituted identity: not null, not an
\* exception, not a detached view.
C14_SingularInputGivesIdentity ==
    [][\A op \in InverseOps :
          (/\ Called({op})
           /\ TierAvailable(op)
           /\ lastCall'.args[1] \in SingularMatrices)
          => /\ lastCall'.result \in {"view", "value"}
             /\ lastCall'.data = Identity]_vars

\* C15: a query of a registered raycaster returns the closest valid hit:
\* the record {point, normal, distance} of a triangle the ray meets at a
\* non-negative distance, no such triangle being nearer; it returns null
\* exactly when the ray meets no triangle at a non-negative distance, so for
\* every ray against a mesh of no triangles.
C15_QueryReturnsClosestHit ==
    [][(Called({"raycast"}) /\ _raycasters[lastCall'.id] # 0)
          => LET n == lastCall'.args[1]
                 ray == lastCall'.args[2]
                 hit == lastCall'.data
             IN  /\ lastCall'.result = "null" <=> ValidHits(n, ray) = {}
                 /\ n = 0 => lastCall'.result = "null"
                 /\ lastCall'.result # "null" =>
                       \E t \in ValidHits(n, ray) :
                           /\ hit.distance = <<"distance", ray[t][1]>>
                           /\ hit.point.x = <<"point.x", t, ray[t][1]>>
                           /\ hit.point.y = <<"point.y", t, ray[t][1]>>
                           /\ hit.point.z = <<"point.z", t, ray[t][1]>>
                           /\ hit.normal.x = <<"normal.x", t>>
                           /\ hit.normal.y = <<"normal.y", t>>
                           /\ hit.normal.z = <<"normal.z", t>>
                           /\ \A u \in ValidHits(n, ray) :
                                  ray[t][1] <= ray[u][1]]_vars

\* A query answered with the nearer of two triangles, the other one being
\* met behind the ray's origin or farther away.
C15_Witness ==
    /\ lastCall.op = "raycast" /\ lastCall.result = "hit"
    /\ lastCall.args[1] = 2
    /\ lastCall.args[2][1] = <<1>>
    /\ lastCall.args[2][2] = <<0>>
    /\ lastCall.data.distance = <<"distance", 0>>

\* This step evaluates generateBlueNoiseJS with the arguments of the
\* evaluation before it.
EvaluatedAgain ==
    /\ jsNoise'.tick # jsNoise.tick
    /\ jsNoise'.size = jsNoise.size
    /\ jsNoise'.seed = jsNoise.seed

\* This step is a generateBlueNoiseTexture call that returns a buffer, right
\* after one of the same size that the same generator answered.
GeneratedAgain ==
    /\ Called({"generateBlueNoiseTexture"})
    /\ lastCall.op = "generateBlueNoiseTexture"
    /\ lastCall.result = "value" /\ lastCall'.result = "value"
    /\ lastCall'.args = lastCall.args
    /\ lastCall'.handle = lastCall.handle

Asked == lastShould'.tick # lastShould.tick

\* C17: in low-power mode shouldUpdate(system) returns true on exactly every
\* r-th low-power call for that system (r = 2 for string, 3 for archText, 2
\* for billboards, 4 for flicker, 1 for any other), each system counted on
\* its own; in normal mode it returns true on every call and leaves all
\* counters unchanged.
C17_ThrottledEveryRthCall ==
    [][Asked =>
        LET system == lastShould'.system
            r == CASE system = "string" -> 2
                   [] system = "archText" -> 3
                   [] system = "billboards" -> 2
                   [] system = "flicker" -> 4
                   [] OTHER -> 1
        IN  IF powerMode = "low-power"
            THEN /\ lastShould'.result <=> (lowCalls'[system] = 0)
                 /\ lowCalls'[system] = (lowCalls[system] + 1) % r
                 /\ \A s \in Systems \ {system} :
                        /\ lowCalls'[s] = lowCalls[s]
                        /\ s \in DOMAIN _updateCounters
                              => _updateCounters'[s] = _updateCounters[s]
            ELSE /\ lastShould'.result
                 /\ UNCHANGED <<_updateCounters, lowCalls>>]_vars

\* In low-power mode archText was just refused while flicker stands one call
\* before its fourth.
C17_Witness ==
    /\ powerMode = "low-power"
    /\ lastShould.system = "archText" /\ ~lastShould.result
    /\ lowCalls["archText"] = 2
    /\ lowCalls["flicker"] = 3
    /\ lowCalls["other"] = 0 /\ "other" \in DOMAIN _updateCounters

\* C18: getEffectiveDelta(system, deltaTime) returns the accumulated delta
\* time: on a frame where shouldUpdate(system) is true in low-power mode it
\* equals the sum of the frame deltas since that system's previous update,
\* whatever the frame deltas are; in normal mode it returns deltaTime.
C18_EffectiveDeltaIsAccumulated ==
    [][(Asked /\ lastShould'.result) =>
        LET system == lastShould'.system
        IN  IF powerMode = "low-power"
            THEN lastShould'.effective = elapsed[system] + lastShould'.delta
            ELSE lastShould'.effective = lastShould'.delta]_vars

\* The step is a createRaycaster('caju', ...) call of initWasmRaycaster's
\* traverse.
CajuRaycasterInvoked == createInvoked' # createInvoked

\* Kernel initialization succeeded and initWasm() went on past its await;
\* the Caju model finished loading; no traverse is still running.
BothCompleted == wasmReady /\ cajuModel # 0 /\ remaining = 0

\* What holds of createRaycaster('caju', ...) in either order of the two
\* completions, whatever the calls return.
CajuRaycasterProtocol ==
    /\ CajuRaycasterInvoked =>
           /\ wasmReady /\ cajuModel # 0 /\ ready
           /\ createInvoked' = createInvoked + 1
           /\ Called({"createRaycaster"}) /\ lastCall'.id = CajuId
    /\ BothCompleted' => createInvoked' = indexedMeshes'
    /\ (initWasmPc' = "done" /\ ~wasmReady') => createInvoked' = 0
    /\ (_raycasters[CajuId] = 0 /\ _raycasters'[CajuId] # 0)
           => CajuRaycasterInvoked

\* C19 as stated: in both orders of the two completions (kernel
\* initialization succeeding, the Caju model finishing loading), once both
\* have happened createRaycaster('caju', ...) has been invoked for the
\* model's indexed child meshes, so that (in an application not disposed,
\* for a model with an indexed child mesh) raycast('caju', ...) is served
\* by the BVH; if initialization fails it is never invoked; no raycaster is
\* created before both completions.
C19_BvhServesAfterBothCompletions ==
    [][/\ CajuRaycasterProtocol
       /\ (BothCompleted' /\ indexedMeshes' > 0 /\ ~appDisposed')
              => _raycasters'[CajuId] # 0]_vars

\* C19, amended: as above, with raycast('caju', ...) served by the BVH from
\* the first createRaycaster('caju', ...) call that returns a raycaster
\* until App.dispose().
C19_BvhServesOnceCreated ==
    [][/\ CajuRaycasterProtocol
       /\ (CajuRaycasterInvoked /\ lastCall'.result = "handle")
              => _raycasters'[CajuId] = lastCall'.handle
       /\ (_raycasters[CajuId] # 0 /\ _raycasters'[CajuId] = 0)
              => (appDisposed' /\ ~appDisposed)]_vars

\* The model loaded first and the kernel became ready after: initWasm()
\* started the traverse, both child meshes got their call, and 'caju' is
\* registered.
C19_Witness ==
    /\ BothCompleted /\ initWasmPc = "done"
    /\ traverseCaller = "initWasm"
    /\ indexedMeshes = 2 /\ createInvoked = 2
    /\ _raycasters[CajuId] # 0
    /\ ~appDisposed

\* This step is a handleRelease() that asks for a sound a loaded buffer can
\* play.
ReleaseRequested ==
    inflateRipple /\ ~inflateRipple' /\ audioContext /\ soundsPc = "loaded"

\* C20: at most one squeak sound started by playSound is playing at any
\* time: a sound requested while another is playing is queued, and a
\* queued sound is started only from the 'ended' callback of the playing
\* one, in every interleaving of playSound calls and 'ended' events, a
\* stopped source's late 'ended' event included.
C20_OneSoundAtATime ==
    [][/\ Cardinality(playing') <= 1
       /\ (ReleaseRequested /\ playing # {})
              => /\ soundQueue' = Append(soundQueue, "out")
                 /\ nextSource' = nextSource
       /\ (nextSource' # nextSource /\ lastStart'.from = "ended")
              => lastStart'.beside = {}]_vars

\* This step handled a pointer event.
PointerEvent == lastEvent'.tick # lastEvent.tick

PressKinds == {"onMouseDown", "onTouchStart"}
ReleaseKinds == {"onMouseUp", "onTouchEnd"}

\* C21: for every sequence of mouse and touch down/move/up events the orbit
\* controls are disabled exactly while a drag is in progress
\* (controls.enabled = not isDragging in every state); isDragging becomes
\* true only on a press whose handlePress hit the model and is false after
\* every release, which alone ends it; updatePullPosition is called only
\* while isDragging is true.
C21_ControlsOffExactlyWhileDragging ==
    [][/\ controlsEnabled = ~isDragging
       /\ controlsEnabled' = ~isDragging'
       /\ (~isDragging /\ isDragging')
              => /\ PointerEvent
                 /\ lastEvent'.kind \in PressKinds /\ lastEvent'.hit
       /\ (PointerEvent /\ lastEvent'.kind \in PressKinds /\ lastEvent'.hit)
              => isDragging'
       /\ (PointerEvent /\ lastEvent'.kind \in ReleaseKinds
               /\ lastEvent'.handled)
              => ~isDragging'
       /\ (isDragging /\ ~isDragging')
              => (PointerEvent /\ lastEvent'.kind \in ReleaseKinds)
       /\ (PointerEvent /\ lastEvent'.pulled) => (isDragging /\ isDragging')
      ]_vars

\* A touch drag in progress: the last event moved the pull, the camera is
\* frozen.
C21_Witness ==
    /\ isDragging /\ ~controlsEnabled
    /\ lastEvent.kind = "onTouchMove" /\ lastEvent.pulled
    /\ inflateRipple

\* This step is a call of the Caju method op.
CajuMethod(op) ==
    lastCajuCall'.tick # lastCajuCall.tick /\ lastCajuCall'.op = op

\* C22: after any sequence of handlePress, handleClick, updatePullPosition,
\* handleRelease and update calls the ripples list holds at most one entry,
\* and whenever inflateRipple is set the list is empty, so that the ripple
\* uniforms never show both; handleRelease with no pull in progress changes
\* nothing and plays no sound.
C22_PullAndRippleNeverCoexist ==
    [][/\ Len(ripples') <= 1
       /\ inflateRipple' => ripples' = <<>>
       /\ (CajuMethod("update") /\ glassUniforms.kind = "shader"
               /\ ripplesEnabled)
              => /\ rippleSlot'.type = 1 <=> inflateRipple'
                 /\ rippleSlot'.type = 0
                        <=> (~inflateRipple' /\ Len(ripples') = 1)
       /\ (CajuMethod("handleRelease") /\ ~inflateRipple)
              => UNCHANGED <<soundVars, cajuVars, uTime, rippleSlot>>]_vars

\* A released ripple is on display: one entry in the list, shown in slot
\* 0, nothing being inflated, and the last call was a handleRelease() with
\* no pull in progress.
C22_Witness ==
    /\ Len(ripples) = 1 /\ ~inflateRipple
    /\ rippleSlot = [type |-> 0, time |-> ripples[1].time]
    /\ lastCajuCall.op = "handleRelease"
    /\ nextSource > 1

\* C23: every ripple created by handleRelease is eventually removed:
\* provided update() keeps being called with positive deltaTime, the ripple
\* is dropped by the first update at which shader time minus its creation
\* time reaches RIPPLE_LIFETIME, so the ripples list eventually becomes
\* empty, and it stays empty until the next release, in every
\* configuration, the one without glass shader uniforms included.
C23_ReleasedRippleEventuallyRemoved ==
    /\ [][/\ (CajuMethod("update") /\ glassUniforms.kind # "null")
              => ripples' = SelectSeq(ripples,
                     LAMBDA r : uTime' - r.time < RIPPLE_LIFETIME)
          /\ (ripples = <<>> /\ ripples' # <<>>)
              => CajuMethod("handleRelease")]_vars
    /\ (ripples # <<>>) ~> (ripples = <<>>)

\* This step is an update() call of the performance manager.
ManagerUpdated == frameCount' # frameCount

\* The update's frame count is a multiple of the check period.
PeriodicCheck == frameCount' = 0

\* The update made the initial adjustment and found the device slow.
InitialAdjustment ==
    /\ ~hasAdjusted /\ hasAdjusted'
    /\ settingsChanges' # settingsChanges

\* C24: power-mode switching has hysteresis: at a periodic check
\* (frameCount a multiple of 30) the mode goes from normal to low-power
\* only if the frame's fps is below 25 and from low-power to normal only if
\* it is above 35, so for fps within [25, 35] a periodic check never
\* changes the mode; outside periodic checks the mode changes only at the
\* initial adjustment, which happens once, and only to low-power.
C24_PowerModeHysteresis ==
    [][/\ powerMode' # powerMode => ManagerUpdated
       /\ hasAdjusted => hasAdjusted'
       /\ ManagerUpdated =>
             LET fps == TicksPerSecond \div lastDelta'
             IN  /\ (powerMode = "normal" /\ powerMode' = "low-power")
                        => ((PeriodicCheck /\ fps < 25) \/ InitialAdjustment)
                 /\ (powerMode = "low-power" /\ powerMode' = "normal")
                        => (PeriodicCheck /\ fps > 35)
                 /\ (PeriodicCheck /\ fps >= 25 /\ fps <= 35
                         /\ ~InitialAdjustment)
                        => powerMode' = powerMode
                 /\ (~PeriodicCheck /\ powerMode' # powerMode)
                        => (InitialAdjustment /\ powerMode' = "low-power")
      ]_vars

\* Low-power mode, entered at a periodic check, has just been kept by a
\* periodic check at 35 frames per second.
C24_Witness ==
    /\ powerMode = "low-power"
    /\ frameCount = 0
    /\ lastDelta = 120
    /\ ~monitoringStarted

\* C25: over any sequence of update() calls the settings-change callback
\* is invoked at most once, never before startMonitoring, and only on an
\* update where more than the monitoring duration has elapsed, more than
\* the minimum number of samples was collected, and the average fps is
\* below 25 or more than 30% of the samples are below 20 fps; once the
\* decision is made (hasAdjusted) fpsHistory no longer grows.
C25_SettingsChangeAtMostOnce ==
    [][/\ settingsChanges' <= 1
       /\ settingsChanges' # settingsChanges =>
             LET samples == fpsHistory'
                 below20 == {i \in DOMAIN samples : samples[i] < 20}
             IN  /\ ManagerUpdated
                 /\ monitoringStarted
                 /\ clockPast
                 /\ Len(samples) > minSamples(isSoftwareRendering)
                 /\ \/ Sum(samples) < 25 * Len(samples)
                    \/ 10 * Cardinality(below20) > 3 * Len(samples)
       /\ hasAdjusted => fpsHistory' = fpsHistory]_vars

\* The callback ran once, for a drop rate of one sample in three with an
\* average above 25; seven more updates have left the samples as they were.
C25_Witness ==
    /\ settingsChanges = 1 /\ hasAdjusted
    /\ isSoftwareRendering = "true"
    /\ fpsHistory = <<40, 40, 15>>
    /\ frameCount = 10
    /\ powerMode = "low-power"
====
